---- MODULE Spec2Model ----
(***************************************************************************)
(* Model of the static-site renderer (class Renderer of                    *)
(* app/back-end/modules/render-html/renderer.js): one render() call walks  *)
(* the pipeline render -> preparePageToRender -> generateWWW ->            *)
(* generateAMP -> progress 100 -> return.  Theme files, the content store, *)
(* the configuration and the outcome of every template evaluation are the  *)
(* environment; the renderer's fields, the error log and the calls it      *)
(* makes to the template helper are the state.                             *)
(*                                                                         *)
(* A template file name is the sequence of the literal pieces the code     *)
(* concatenates, without the .hbs extension: <<"tag", "-", "landing">> is  *)
(* tag-landing.hbs and <<"amp-post", "amp-">> is amp-postamp-.hbs.         *)
(***************************************************************************)
EXTENDS Integers, Sequences, FiniteSets, TLC

VARIABLES
    \* ---- environment: read by the renderer, never written by it ----
    themeValid,     \* themeConfigValidator(config.json) === true
    config,         \* site.config.json and theme.config.json as loaded
    db,             \* the content store: posts, tags, authors
    faults,         \* broken theme files and throwing template evaluations
    \* ---- Renderer fields ----
    pc,             \* position of the render() call in the pipeline
    errorLog,       \* this.errorLog
    ampMode,        \* this.ampMode
    outputDir,      \* this.outputDir
    helperDir,      \* this.templateHelper.outputDir
    domain,         \* this.siteConfig.domain
    cachedItems,    \* this.cachedItems
    \* ---- effects of the current render() call, in call order ----
    loads,          \* configuration, theme and content-store loads
    compiled,       \* calls of compileTemplate
    rendered,       \* template evaluations
    written,        \* calls of templateHelper.saveOutput*File
    progress,       \* values passed to sendProgress
    warnings,       \* warnings written with console.log
    result,         \* what render() returned
    renders,        \* number of render() calls started on this Renderer
    previous        \* what the render() call before the current one wrote and returned

env  == <<themeValid, config, db, faults>>
flds == <<errorLog, ampMode, outputDir, helperDir, domain, cachedItems>>
effs == <<loads, compiled, rendered, written, progress, warnings>>
vars == <<env, pc, flds, effs, result, renders, previous>>

(***************************************************************************)
(* Bounds of the explored environment.                                     *)
(***************************************************************************)
MaxPosts   == 2
MaxTags    == 3
MaxAuthors == 2
MaxRenders == 1

(***************************************************************************)
(* Values                                                                  *)
(***************************************************************************)
DEFAULT   == "DEFAULT"
NoTpl     == <<>>          \* compileTemplate's false
NoOutput  == <<>>          \* the empty string '' as a rendered output
NaN       == <<>>          \* a configured page size parseInt cannot read
SiteDomain == <<"site">>   \* siteConfig.domain as configured
OutputRoot == <<"output">> \* <site>/output

Kinds == {"index", "post", "tag", "author"}

RECURSIVE SeqSum(_)
SeqSum(s) == IF s = <<>> THEN 0 ELSE Head(s) + SeqSum(Tail(s))

IsPrefix(s, t) == Len(s) <= Len(t) /\ SubSeq(t, 1, Len(s)) = s

SelectIdx(s, P(_)) == { i \in 1..Len(s) : P(s[i]) }

\* Math.ceil(a / b) for a >= 0, b > 0
CeilDiv(a, b) == (a + b - 1) \div b

(***************************************************************************)
(* Environment: faults                                                     *)
(***************************************************************************)
FileFault(file, status) ==
    [type |-> "file", file |-> file, status |-> status,
     amp |-> FALSE, kind |-> "", ent |-> 0, page |-> 0]
RenderFault(amp, kind, ent, page) ==
    [type |-> "render", file |-> <<>>, status |-> "",
     amp |-> amp, kind |-> kind, ent |-> ent, page |-> page]
PartialFault(name) ==
    [type |-> "partial", file |-> <<name>>, status |-> "",
     amp |-> FALSE, kind |-> "", ent |-> 0, page |-> 0]
CssFault ==
    [type |-> "css", file |-> <<>>, status |-> "",
     amp |-> FALSE, kind |-> "", ent |-> 0, page |-> 0]

\* templateHelper.loadTemplate(inputFile): the file's text.
\*   "ok"      a non-empty template Handlebars compiles
\*   "missing" no such file: loadTemplate returns false
\*   "empty"   the file exists and is the empty string
\*   "bad"     a non-empty template on which Handlebars.compile throws
loadTemplate(inputFile) ==
    IF \E f \in faults : f.type = "file" /\ f.file = inputFile
    THEN (CHOOSE f \in faults : f.type = "file" /\ f.file = inputFile).status
    ELSE "ok"

\* compiledTemplate(context, {data: globalContext}) throws
Throws(tpl, amp, kind, ent, page) ==
    \/ tpl = NoTpl                 \* false is not a function
    \/ /\ loadTemplate(tpl) # "empty"
       /\ RenderFault(amp, kind, ent, page) \in faults

\* what a successful evaluation returns: '' for the empty template
Evaluate(tpl, amp, kind, ent, page) ==
    IF loadTemplate(tpl) = "empty" THEN NoOutput
    ELSE <<[tpl |-> tpl, amp |-> amp, kind |-> kind, ent |-> ent, page |-> page]>>

(***************************************************************************)
(* Error log entries                                                       *)
(***************************************************************************)
Err(code, file) == [code |-> code, file |-> file]

\* The effects a pipeline step threads through its loops.
\* gc is the globalContext object of the generate function that is running
NoContext == <<>>

Eff(log, st, cp, rd, wr, pg, wn) ==
    [errorLog |-> log, loads |-> st, compiled |-> cp, rendered |-> rd,
     written |-> wr, progress |-> pg, warnings |-> wn, gc |-> NoContext]
CurEff == Eff(errorLog, loads, compiled, rendered, written, progress, warnings)

\* A loop test that reads the effects so far: TLC then evaluates them iteration
\* by iteration instead of all at once when the loop has ended.  Always true.
Evaluated(e) == Len(e.rendered) >= 0

sendProgress(e, value) == [e EXCEPT !.progress = Append(@, value)]

(***************************************************************************)
(* compileTemplate(inputFile)                                              *)
(***************************************************************************)
IsFeedFile(inputFile) == inputFile \in {<<"feed-xml">>, <<"feed-json">>}

\* Faulty variant of compileTemplate: the missing-file entry replaces the log
\* instead of being pushed onto it.
compileTemplateResettingLog(e, amp, kind, inputFile) ==
    LET loaded   == loadTemplate(inputFile)
        template == IF IsFeedFile(inputFile) /\ loaded \in {"missing", "empty"}
                    THEN "ok" ELSE loaded
        log1     == IF template \in {"missing", "empty"}
                    THEN <<Err("missing", inputFile)>>
                    ELSE e.errorLog
        throws   == template \in {"missing", "bad"}
        log2     == IF throws THEN Append(log1, Err("1001", inputFile)) ELSE log1
        tpl      == IF throws THEN NoTpl ELSE inputFile
    IN  [e   |-> [e EXCEPT !.errorLog = log2,
                           !.compiled = Append(@, [amp |-> amp, kind |-> kind,
                                                   file |-> inputFile, tpl |-> tpl])],
         tpl |-> tpl]

compileTemplate(e, amp, kind, inputFile) ==
    LET loaded   == loadTemplate(inputFile)
        \* a feed template the theme lacks is read from the default files
        template == IF IsFeedFile(inputFile) /\ loaded \in {"missing", "empty"}
                    THEN "ok" ELSE loaded
        log1     == IF template \in {"missing", "empty"}
                    THEN Append(e.errorLog, Err("missing", inputFile))
                    ELSE e.errorLog
        \* Handlebars.compile(false) throws; Handlebars.compile('') does not
        throws   == template \in {"missing", "bad"}
        log2     == IF throws THEN Append(log1, Err("1001", inputFile)) ELSE log1
        tpl      == IF throws THEN NoTpl ELSE inputFile
    IN  [e   |-> [e EXCEPT !.errorLog = log2,
                           !.compiled = Append(@, [amp |-> amp, kind |-> kind,
                                                   file |-> inputFile, tpl |-> tpl])],
         tpl |-> tpl]

(***************************************************************************)
(* renderTemplate(compiledTemplate, context, globalContext, inputFile)     *)
(***************************************************************************)
Rendering(tpl, inputFile, amp, kind, ent, page, gc, ok) ==
    [tpl |-> tpl, inputFile |-> inputFile, amp |-> amp, kind |-> kind,
     ent |-> ent, page |-> page, gc |-> gc, ok |-> ok]

renderTemplate(e, tpl, inputFile, amp, kind, ent, page, gc) ==
    IF Throws(tpl, amp, kind, ent, page)
    THEN [e |-> [e EXCEPT !.errorLog = Append(@, Err("1002", inputFile)),
                          !.rendered = Append(@, Rendering(tpl, inputFile, amp, kind,
                                                           ent, page, gc, FALSE))],
          output |-> NoOutput]
    ELSE [e |-> [e EXCEPT !.rendered = Append(@, Rendering(tpl, inputFile, amp, kind,
                                                           ent, page, gc, TRUE))],
          output |-> Evaluate(tpl, amp, kind, ent, page)]

\* templateHelper.saveOutput...File(name[, page], output); page 0: no page argument
saveOutput(e, fn, name, page, output, amp, kind, ent) ==
    [e EXCEPT !.written = Append(@, [fn |-> fn, dir |-> helperDir, name |-> name,
                                     page |-> page, output |-> output,
                                     amp |-> amp, kind |-> kind, ent |-> ent])]

(***************************************************************************)
(* Pagination and the global context                                       *)
(***************************************************************************)
\* parseInt(value, 10) with the isNaN fallback
postsPerPageOf(raw) == IF raw = NaN THEN 5 ELSE raw[1]

PaginationTag(kind) ==
    CASE kind = "index"  -> "index-pagination"
      [] kind = "tag"    -> "tag-pagination"
      [] kind = "author" -> "author-pagination"

\* A URL is the sequence of the pieces the code concatenates: "/" for each
\* separator, one piece per segment.  Concatenating '' adds nothing, so an empty
\* prefix leaves two separators side by side.
Url(pieces) == SelectSeq(pieces, LAMBDA p : p # "")

\* what follows domain + '/' on the first page of a listing
listingPath(kind, slug) ==
    CASE kind = "index"  -> <<>>
      [] kind = "tag"    -> IF config.tagsPrefix # ""
                            THEN <<config.tagsPrefix, "/", slug, "/">>
                            ELSE <<slug, "/">>
      [] kind = "author" -> <<config.authorsPrefix, "/", slug, "/">>

\* Faulty variant of pageSuffix: the first page is numbered as well.
pageSuffixOnEveryPage(currentPage) ==
    <<config.pageName, "/", ToString(currentPage), "/">>

\* pagePart + '/' + currentPage + '/' when currentPage > 1
pageSuffix(currentPage) ==
    IF currentPage > 1 THEN <<config.pageName, "/", ToString(currentPage), "/">>
    ELSE <<>>

\* globalContext.website.pageUrl of a listing page
pageUrl(kind, slug, currentPage) ==
    Url(domain \o <<"/">> \o listingPath(kind, slug) \o pageSuffix(currentPage))

\* Faulty variant of twinUrl: the URL is kept when AMP is disabled.
twinUrlAlways(url) == url

\* if (!this.siteConfig.advanced.ampIsEnabled) globalContext.website.ampUrl = ''
twinUrl(url) == IF ~config.ampIsEnabled THEN <<>> ELSE url

\* globalContext.website.ampUrl of a listing page
ampUrl(kind, slug, currentPage) ==
    twinUrl(Url(domain \o <<"/", "amp", "/">> \o listingPath(kind, slug)
                \o pageSuffix(currentPage)))

\* globalContext.pagination.context
paginationContext(kind, slug) ==
    CASE kind = "index"  -> <<>>
      [] kind = "tag"    -> IF config.tagsPrefix # ""
                            THEN Url(<<config.tagsPrefix, "/", slug>>)
                            ELSE Url(<<slug>>)
      [] kind = "author" -> Url(<<config.authorsPrefix, "/", slug>>)

\* Faulty variant of SinglePageContext: pagination metadata is attached to the
\* single page.
SinglePageContextWithPagination(kind, slug, limit) ==
    [context |-> <<kind>>, isFirstPage |-> TRUE, isLastPage |-> TRUE,
     pagination |-> <<[context |-> paginationContext(kind, slug),
                       totalPosts |-> 0, totalPages |-> 1, currentPage |-> 1,
                       postsPerPage |-> limit, nextPage |-> 0, previousPage |-> 0]>>,
     offset |-> 0, limit |-> limit,
     pageUrl |-> pageUrl(kind, slug, 1), ampUrl |-> ampUrl(kind, slug, 1)]

\* globalContext as the template sees it; pagination <<>> is false, page 0 is false.
\* offset and limit are the arguments of contextGenerator.getContext.
SinglePageContext(kind, slug, limit) ==
    [context |-> <<kind>>, isFirstPage |-> TRUE, isLastPage |-> TRUE,
     pagination |-> <<>>, offset |-> 0, limit |-> limit,
     pageUrl |-> pageUrl(kind, slug, 1), ampUrl |-> ampUrl(kind, slug, 1)]

\* Faulty variant of PagedContext: the last page still names a next page.
PagedContextWithNextPage(kind, slug, total, perPage, offset) ==
    LET currentPage  == IF perPage > 0 THEN (offset \div perPage) + 1 ELSE 1
        totalPages   == IF perPage > 0 THEN CeilDiv(total, perPage) ELSE 0
        nextPage     == currentPage + 1
        previousPage == IF currentPage > 1 THEN currentPage - 1 ELSE 0
    IN  [context     |-> IF offset > 0
                         THEN <<kind, "pagination", PaginationTag(kind)>>
                         ELSE <<kind>>,
         isFirstPage |-> currentPage = 1,
         isLastPage  |-> currentPage = totalPages,
         pagination  |-> <<[context |-> paginationContext(kind, slug),
                            totalPosts |-> total, totalPages |-> totalPages,
                            currentPage |-> currentPage, postsPerPage |-> perPage,
                            nextPage |-> nextPage, previousPage |-> previousPage]>>,
         offset      |-> offset,
         limit       |-> perPage,
         pageUrl     |-> pageUrl(kind, slug, currentPage),
         ampUrl      |-> ampUrl(kind, slug, currentPage)]

PagedContext(kind, slug, total, perPage, offset) ==
    LET currentPage  == IF perPage > 0 THEN (offset \div perPage) + 1 ELSE 1
        totalPages   == IF perPage > 0 THEN CeilDiv(total, perPage) ELSE 0
        nextPage     == IF currentPage < totalPages THEN currentPage + 1 ELSE 0
        previousPage == IF currentPage > 1 THEN currentPage - 1 ELSE 0
    IN  [context     |-> IF offset > 0
                         THEN <<kind, "pagination", PaginationTag(kind)>>
                         ELSE <<kind>>,
         isFirstPage |-> currentPage = 1,
         isLastPage  |-> currentPage = totalPages,
         pagination  |-> <<[context |-> paginationContext(kind, slug),
                            totalPosts |-> total, totalPages |-> totalPages,
                            currentPage |-> currentPage, postsPerPage |-> perPage,
                            nextPage |-> nextPage, previousPage |-> previousPage]>>,
         offset      |-> offset,
         limit       |-> perPage,
         pageUrl     |-> pageUrl(kind, slug, currentPage),
         ampUrl      |-> ampUrl(kind, slug, currentPage)]

\* generatePosts: '/' + slug + '.html', or '/' + slug + '/' with cleanUrls
postPath(slug) == IF config.cleanUrls THEN <<slug, "/">> ELSE <<slug, ".html">>

PostContext(slug) ==
    [context |-> <<"post">>, isFirstPage |-> FALSE, isLastPage |-> FALSE,
     pagination |-> <<>>, offset |-> 0, limit |-> 0,
     pageUrl |-> Url(domain \o <<"/">> \o postPath(slug)),
     ampUrl  |-> twinUrl(Url(domain \o <<"/", "amp", "/">> \o postPath(slug)))]

\* generate404s / generateSearch: pageUrl = domain + '/', ampUrl = ''
PlainContext(kind) ==
    [context |-> <<kind>>, isFirstPage |-> TRUE, isLastPage |-> TRUE,
     pagination |-> <<>>, offset |-> 0, limit |-> 0,
     pageUrl |-> Url(domain \o <<"/">>), ampUrl |-> <<>>]

\* postsPerPage == -1 ? 999 : postsPerPage
UnlimitedPageSize == 999
loopPageSize(perPage) == IF perPage = -1 THEN UnlimitedPageSize ELSE perPage

(***************************************************************************)
(* generateFrontpage(ampMode)                                              *)
(***************************************************************************)
\* a field of globalContext that createGlobalContext does not assign
Unset == <<"unset">>

\* createGlobalContext(context): a new object for the generate function, with
\* context = [kind]
createGlobalContext(e, kind) ==
    [e EXCEPT !.gc = [context |-> <<kind>>, isFirstPage |-> Unset,
                      isLastPage |-> Unset, pagination |-> Unset, offset |-> Unset,
                      limit |-> Unset, pageUrl |-> Unset, ampUrl |-> Unset]]

\* Assignments to the one globalContext object.  The single-page branch assigns
\* the URLs, the page flags and pagination, and leaves globalContext.context as
\* it finds it; an iteration of the pagination loop begins with
\* globalContext.context = [kind] and assigns every field.
assignSinglePage(e, fields) ==
    [e EXCEPT !.gc = [fields EXCEPT !.context = e.gc.context]]

assignPage(e, fields) == [e EXCEPT !.gc = fields]

\* globalContext.context = [kind] at the top of the entity loop
resetContext(e, kind) == [e EXCEPT !.gc.context = <<kind>>]

\* RendererContextHome.getPostsNumber()
getPostsNumber == Len(db.posts)

RECURSIVE frontpagePages(_, _, _, _, _, _, _)
frontpagePages(e, amp, tpl, inputFile, total, perPage, offset) ==
    IF ~(offset < total /\ Evaluated(e)) THEN e
    ELSE LET e1   == assignPage(e, PagedContext("index", "", total, perPage, offset))
             gc   == e1.gc
             page == gc.pagination[1].currentPage
             r    == renderTemplate(e1, tpl, inputFile, amp, "index", 0, page, gc)
             e2   == IF offset = 0
                     THEN saveOutput(r.e, "saveOutputFile", "index.html", 0,
                                     r.output, amp, "index", 0)
                     ELSE saveOutput(r.e, "saveOutputHomePaginationFile", "", page,
                                     r.output, amp, "index", 0)
         IN  frontpagePages(e2, amp, tpl, inputFile, total, perPage, offset + perPage)

generateFrontpage(e, amp) ==
    LET inputFile == IF amp THEN <<"amp-index">> ELSE <<"index">>
        c         == compileTemplate(e, amp, "index", inputFile)
        total     == getPostsNumber
        perPage   == postsPerPageOf(config.postsPerPage)
        e1        == createGlobalContext(c.e, "index")
        e2        == assignSinglePage(e1, SinglePageContext("index", "", perPage))
        gc        == e2.gc
    IN  IF c.tpl = NoTpl THEN c.e
        ELSE IF total <= perPage \/ perPage <= 0
        THEN \* the single page has its own try/catch and returns before the write
             IF Throws(c.tpl, amp, "index", 0, 1)
             THEN [e2 EXCEPT !.errorLog = Append(@, Err("1002", inputFile)),
                             !.rendered = Append(@, Rendering(c.tpl, inputFile, amp,
                                                    "index", 0, 1, gc, FALSE))]
             ELSE saveOutput([e2 EXCEPT !.rendered =
                                  Append(@, Rendering(c.tpl, inputFile, amp,
                                                      "index", 0, 1, gc, TRUE))],
                             "saveOutputFile", "index.html", 0,
                             Evaluate(c.tpl, amp, "index", 0, 1), amp, "index", 0)
        ELSE frontpagePages(e1, amp, c.tpl, inputFile, total,
                            loopPageSize(perPage), 0)

(***************************************************************************)
(* The per-kind compiled-template table and template resolution            *)
(***************************************************************************)
\* !compiledTemplates[fileSlug]
NotCompiled(ct, fileSlug) == fileSlug \notin DOMAIN ct \/ ct[fileSlug] = NoTpl

PutTemplate(ct, fileSlug, tpl) ==
    [s \in DOMAIN ct \cup {fileSlug} |-> IF s = fileSlug THEN tpl ELSE ct[s]]

\* themeConfig.postTemplates / tagTemplates / authorTemplates [slug] is truthy
Declared(kind, slug) == slug \in config.templates[kind]

\* Faulty variant of resolveTemplate: the slug is not checked against the theme.
resolveTemplateUnchecked(kind, data) ==
    IF data = <<>> THEN DEFAULT
    ELSE IF data[1] # "" THEN data[1] ELSE DEFAULT

\* tagTemplates / authorTemplates: the slug an entity asks for.  data is <<>> when
\* additionalData (or the parsed author config) is missing, else <<template>>.
resolveTemplate(kind, data) ==
    IF data = <<>> THEN DEFAULT
    ELSE IF data[1] # ""
         THEN IF data[1] = "" \/ ~Declared(kind, data[1]) THEN DEFAULT ELSE data[1]
         ELSE DEFAULT

\* the variant compilation loop skips this slug
skipsCompilation(kind, fileSlug) ==
    IF kind = "post"
    THEN fileSlug = "" \/ ~Declared("post", fileSlug)
    ELSE fileSlug = "" \/ fileSlug = DEFAULT

\* Faulty variant of compileVariants: a variant that does not compile is noted
\* and the loop goes on.
RECURSIVE compileVariantsContinuing(_, _, _, _, _, _)
compileVariantsContinuing(e, kind, baseName, templates, i, ct) ==
    IF i > Len(templates) THEN [e |-> e, ct |-> ct, ok |-> TRUE]
    ELSE IF skipsCompilation(kind, templates[i])
    THEN compileVariantsContinuing(e, kind, baseName, templates, i + 1, ct)
    ELSE LET c == compileTemplate(e, FALSE, kind, <<baseName, "-", templates[i]>>)
         IN  compileVariantsContinuing(c.e, kind, baseName, templates, i + 1,
                                       PutTemplate(ct, templates[i], c.tpl))

RECURSIVE compileVariants(_, _, _, _, _, _)
compileVariants(e, kind, baseName, templates, i, ct) ==
    IF i > Len(templates) THEN [e |-> e, ct |-> ct, ok |-> TRUE]
    ELSE IF skipsCompilation(kind, templates[i])
    THEN compileVariants(e, kind, baseName, templates, i + 1, ct)
    ELSE LET c == compileTemplate(e, FALSE, kind, <<baseName, "-", templates[i]>>)
         IN  IF c.tpl = NoTpl
             THEN [e |-> c.e, ct |-> PutTemplate(ct, templates[i], c.tpl), ok |-> FALSE]
             ELSE compileVariants(c.e, kind, baseName, templates, i + 1,
                                  PutTemplate(ct, templates[i], c.tpl))

\* the slug an entity is rendered with
usedSlug(amp, template) == IF amp THEN DEFAULT ELSE IF template = "" THEN DEFAULT ELSE template
fallbackSlug(ct, fileSlug) == IF NotCompiled(ct, fileSlug) THEN DEFAULT ELSE fileSlug

\* inputFile.replace('.hbs', '') + (fileSlug === 'DEFAULT' ? '' : '-' + fileSlug) + '.hbs'
nextInputFile(inputFile, fileSlug) ==
    inputFile \o (IF fileSlug = DEFAULT THEN <<>> ELSE <<"-", fileSlug>>)

(***************************************************************************)
(* generatePosts(ampMode)                                                  *)
(***************************************************************************)
\* Faulty variant of renderPosts: the AMP pass counts its posts with the
\* increase of the standard pass, 40 / n.
RECURSIVE renderPostsWithStandardIncrease(_, _, _, _, _, _)
renderPostsWithStandardIncrease(e, amp, posts, ct, inputFile, i) ==
    IF i > Len(posts) THEN e
    ELSE LET fileSlug == fallbackSlug(ct, usedSlug(amp, posts[i].template))
             file2    == nextInputFile(inputFile \o (IF amp THEN <<"amp-">> ELSE <<>>),
                                       fileSlug)
             r        == renderTemplate(e, ct[fileSlug], file2, amp, "post",
                                        posts[i].id, 1, PostContext(posts[i].slug))
             e2       == saveOutput(r.e, "saveOutputPostFile", posts[i].slug, 0,
                                    r.output, amp, "post", posts[i].id)
             e3       == sendProgress(e2, IF amp
                                          THEN 90 + CeilDiv(40 * (i - 1), Len(posts))
                                          ELSE 20 + CeilDiv(40 * (i - 1), Len(posts)))
         IN  renderPostsWithStandardIncrease(e3, amp, posts, ct, file2, i + 1)

RECURSIVE renderPosts(_, _, _, _, _, _)
renderPosts(e, amp, posts, ct, inputFile, i) ==
    IF ~(i <= Len(posts) /\ Evaluated(e)) THEN e
    ELSE LET fileSlug == fallbackSlug(ct, usedSlug(amp, posts[i].template))
             file2    == nextInputFile(inputFile \o (IF amp THEN <<"amp-">> ELSE <<>>),
                                       fileSlug)
             r        == renderTemplate(e, ct[fileSlug], file2, amp, "post",
                                        posts[i].id, 1, PostContext(posts[i].slug))
             e2       == saveOutput(r.e, "saveOutputPostFile", posts[i].slug, 0,
                                    r.output, amp, "post", posts[i].id)
             \* Math.ceil(20 + (40 / n) * i), i counted from 0
             e3       == sendProgress(e2, IF amp
                                          THEN 90 + CeilDiv(7 * (i - 1), Len(posts))
                                          ELSE 20 + CeilDiv(40 * (i - 1), Len(posts)))
         IN  renderPosts(e3, amp, posts, ct, file2, i + 1)

generatePosts(e0, amp) ==
    LET e         == [e0 EXCEPT !.loads = Append(@, "posts")]
        posts     == db.posts
        inputFile == IF amp THEN <<"amp-post">> ELSE <<"post">>
        c         == compileTemplate(e, amp, "post", inputFile)
        ct0       == [s \in {DEFAULT} |-> c.tpl]
        v         == IF amp THEN [e |-> c.e, ct |-> ct0, ok |-> TRUE]
                     ELSE compileVariants(c.e, "post", "post",
                                          [i \in 1..Len(posts) |-> posts[i].template],
                                          1, ct0)
    IN  IF c.tpl = NoTpl THEN c.e
        ELSE IF ~v.ok THEN v.e
        ELSE renderPosts(v.e, amp, posts, v.ct, inputFile, 1)

(***************************************************************************)
(* generateTags(ampMode) and generateAuthors(ampMode)                      *)
(***************************************************************************)
\* Faulty variant of SavePaged: later pages go to the canonical file too.
SavePagedToCanonicalFile(kind) ==
    IF kind = "tag" THEN "saveOutputTagFile" ELSE "saveOutputAuthorFile"

SaveFile(kind)  == IF kind = "tag" THEN "saveOutputTagFile" ELSE "saveOutputAuthorFile"
SavePaged(kind) == IF kind = "tag" THEN "saveOutputTagPaginationFile"
                                   ELSE "saveOutputAuthorPaginationFile"

\* Faulty variant of entityPages: the offset advances by one item instead of
\* one page.
RECURSIVE entityPagesByItem(_, _, _, _, _, _, _, _, _, _)
entityPagesByItem(e, amp, kind, row, fileSlug, ct, inputFile, total, perPage, offset) ==
    IF ~(offset < total /\ Evaluated(e)) THEN [e |-> e, inputFile |-> inputFile]
    ELSE LET e1    == assignPage(e, PagedContext(kind, row.slug, total, perPage, offset))
             gc    == e1.gc
             page  == gc.pagination[1].currentPage
             slug2 == fallbackSlug(ct, fileSlug)
             file2 == nextInputFile(inputFile, slug2)
             r     == renderTemplate(e1, ct[slug2], file2, amp, kind, row.id, page, gc)
             e2    == IF offset = 0
                      THEN saveOutput(r.e, SaveFile(kind), row.slug, 0, r.output,
                                      amp, kind, row.id)
                      ELSE saveOutput(r.e, SavePaged(kind), row.slug, page, r.output,
                                      amp, kind, row.id)
         IN  entityPagesByItem(e2, amp, kind, row, slug2, ct, file2, total, perPage,
                               offset + 1)

\* the pagination loop of one tag or author
RECURSIVE entityPages(_, _, _, _, _, _, _, _, _, _)
entityPages(e, amp, kind, row, fileSlug, ct, inputFile, total, perPage, offset) ==
    IF ~(offset < total /\ Evaluated(e)) THEN [e |-> e, inputFile |-> inputFile]
    ELSE LET e1    == assignPage(e, PagedContext(kind, row.slug, total, perPage, offset))
             gc    == e1.gc
             page  == gc.pagination[1].currentPage
             slug2 == fallbackSlug(ct, fileSlug)
             file2 == nextInputFile(inputFile, slug2)
             r     == renderTemplate(e1, ct[slug2], file2, amp, kind, row.id, page, gc)
             e2    == IF offset = 0
                      THEN saveOutput(r.e, SaveFile(kind), row.slug, 0, r.output,
                                      amp, kind, row.id)
                      ELSE saveOutput(r.e, SavePaged(kind), row.slug, page, r.output,
                                      amp, kind, row.id)
         IN  entityPages(e2, amp, kind, row, slug2, ct, file2, total, perPage,
                         offset + perPage)

\* Faulty variant of renderEntity: globalContext.context is not reset at the top
\* of the entity loop.
renderEntityWithoutContextReset(e, amp, kind, row, template, ct, inputFile) ==
    LET fileSlug == usedSlug(amp, template)
        total    == cachedItems[kind][row.id].postsNumber
        perPage  == postsPerPageOf(IF kind = "tag" THEN config.tagsPostsPerPage
                                                   ELSE config.authorsPostsPerPage)
        e0       == e
    IN  IF total <= perPage \/ perPage <= 0
        THEN LET slug2 == fallbackSlug(ct, fileSlug)
                 file2 == nextInputFile(inputFile, slug2)
                 e1    == assignSinglePage(e0, SinglePageContext(kind, row.slug, perPage))
                 r     == renderTemplate(e1, ct[slug2], file2, amp, kind, row.id, 1,
                                         e1.gc)
             IN  [e |-> saveOutput(r.e, SaveFile(kind), row.slug, 0, r.output,
                                   amp, kind, row.id),
                  inputFile |-> file2]
        ELSE entityPages(e0, amp, kind, row, fileSlug, ct, inputFile, total,
                         loopPageSize(perPage), 0)

\* one iteration of the entity loop, without its progress notification; it begins
\* with globalContext.context = [kind]
renderEntity(e, amp, kind, row, template, ct, inputFile) ==
    LET fileSlug == usedSlug(amp, template)
        total    == cachedItems[kind][row.id].postsNumber
        perPage  == postsPerPageOf(IF kind = "tag" THEN config.tagsPostsPerPage
                                                   ELSE config.authorsPostsPerPage)
        e0       == resetContext(e, kind)
    IN  IF total <= perPage \/ perPage <= 0
        THEN LET slug2 == fallbackSlug(ct, fileSlug)
                 file2 == nextInputFile(inputFile, slug2)
                 e1    == assignSinglePage(e0, SinglePageContext(kind, row.slug, perPage))
                 r     == renderTemplate(e1, ct[slug2], file2, amp, kind, row.id, 1,
                                         e1.gc)
             IN  [e |-> saveOutput(r.e, SaveFile(kind), row.slug, 0, r.output,
                                   amp, kind, row.id),
                  inputFile |-> file2]
        ELSE entityPages(e0, amp, kind, row, fileSlug, ct, inputFile, total,
                         loopPageSize(perPage), 0)

\* Faulty variant of renderEntities: the loop ends at the first entity whose
\* render failed.
RECURSIVE renderEntitiesStoppingOnFailure(_, _, _, _, _, _, _, _)
renderEntitiesStoppingOnFailure(e, amp, kind, rows, templates, ct, inputFile, i) ==
    IF i > Len(rows) THEN e
    ELSE LET r == renderEntity(e, amp, kind, rows[i], templates[i], ct, inputFile)
         IN  IF Len(r.e.errorLog) > Len(e.errorLog) THEN r.e
             ELSE renderEntitiesStoppingOnFailure(r.e, amp, kind, rows, templates, ct,
                                                  r.inputFile, i + 1)

RECURSIVE renderEntities(_, _, _, _, _, _, _, _)
renderEntities(e, amp, kind, rows, templates, ct, inputFile, i) ==
    IF ~(i <= Len(rows) /\ Evaluated(e)) THEN e
    ELSE LET r  == renderEntity(e, amp, kind, rows[i], templates[i], ct, inputFile)
             e2 == IF kind = "tag"
                   THEN sendProgress(r.e, IF amp
                                          THEN 97 + CeilDiv(2 * (i - 1), Len(rows))
                                          ELSE 60 + CeilDiv(10 * (i - 1), Len(rows)))
                   ELSE r.e
         IN  renderEntities(e2, amp, kind, rows, templates, ct, r.inputFile, i + 1)

\* Faulty variant of generateListing: no early return when the DEFAULT template
\* did not compile.
generateListingWithoutDefault(e, amp, kind, rows, templates) ==
    LET inputFile == IF amp THEN <<IF kind = "tag" THEN "amp-tag" ELSE "amp-author">>
                            ELSE <<kind>>
        c         == compileTemplate(e, amp, kind, inputFile)
        ct0       == [s \in {DEFAULT} |-> c.tpl]
        v         == IF amp THEN [e |-> c.e, ct |-> ct0, ok |-> TRUE]
                     ELSE compileVariants(c.e, kind, kind, templates, 1, ct0)
    IN  IF ~v.ok THEN v.e
        ELSE renderEntities(createGlobalContext(v.e, kind), amp, kind, rows, templates,
                            v.ct, inputFile, 1)

\* Faulty variant of generateListing: the AMP pass compiles the requested
\* variants as well.
generateListingCompilingVariantsInAmp(e, amp, kind, rows, templates) ==
    LET inputFile == IF amp THEN <<IF kind = "tag" THEN "amp-tag" ELSE "amp-author">>
                            ELSE <<kind>>
        c         == compileTemplate(e, amp, kind, inputFile)
        ct0       == [s \in {DEFAULT} |-> c.tpl]
        v         == compileVariants(c.e, kind, kind, templates, 1, ct0)
    IN  IF c.tpl = NoTpl THEN c.e
        ELSE IF ~v.ok THEN v.e
        ELSE renderEntities(createGlobalContext(v.e, kind), amp, kind, rows, templates,
                            v.ct, inputFile, 1)

\* the part generateTags and generateAuthors share, from "Load templates" on
generateListing(e, amp, kind, rows, templates) ==
    LET inputFile == IF amp THEN <<IF kind = "tag" THEN "amp-tag" ELSE "amp-author">>
                            ELSE <<kind>>
        c         == compileTemplate(e, amp, kind, inputFile)
        ct0       == [s \in {DEFAULT} |-> c.tpl]
        v         == IF amp THEN [e |-> c.e, ct |-> ct0, ok |-> TRUE]
                     ELSE compileVariants(c.e, kind, kind, templates, 1, ct0)
    IN  IF c.tpl = NoTpl THEN c.e
        ELSE IF ~v.ok THEN v.e
        ELSE renderEntities(createGlobalContext(v.e, kind), amp, kind, rows, templates,
                            v.ct, inputFile, 1)

\* Faulty variant of generateTags: the AMP pass does not remove empty tags.
generateTagsKeepingEmptyInAmp(e0, amp) ==
    LET e        == [e0 EXCEPT !.loads = Append(@, "tags")]
        cached   == [i \in 1..Len(db.tags) |-> cachedItems.tag[db.tags[i].id]]
        keep(t)  == t.postsNumber > 0
        tagsData == IF ~config.displayEmptyTags /\ ~amp THEN SelectSeq(cached, keep)
                                                        ELSE cached
        tagTemplates == [i \in 1..Len(tagsData) |->
                            resolveTemplate("tag", tagsData[i].additionalData)]
    IN  generateListing(e, amp, "tag", tagsData, tagTemplates)

\* Faulty variant of generateTags: empty tags are not removed.
generateTagsKeepingEmpty(e0, amp) ==
    LET e        == [e0 EXCEPT !.loads = Append(@, "tags")]
        tagsData == [i \in 1..Len(db.tags) |-> cachedItems.tag[db.tags[i].id]]
        tagTemplates == [i \in 1..Len(tagsData) |->
                            resolveTemplate("tag", tagsData[i].additionalData)]
    IN  generateListing(e, amp, "tag", tagsData, tagTemplates)

generateTags(e0, amp) ==
    LET e        == [e0 EXCEPT !.loads = Append(@, "tags")]
        cached   == [i \in 1..Len(db.tags) |-> cachedItems.tag[db.tags[i].id]]
        keep(t)  == t.postsNumber > 0
        tagsData == IF ~config.displayEmptyTags THEN SelectSeq(cached, keep) ELSE cached
        tagTemplates == [i \in 1..Len(tagsData) |->
                            resolveTemplate("tag", tagsData[i].additionalData)]
    IN  generateListing(e, amp, "tag", tagsData, tagTemplates)

\* the config column of an authors row that JSON.parse rejects
InvalidJSON == <<"not", "JSON">>

\* JSON.parse(authorData[2]) with its catch: '' for a text that does not parse
parseAuthorConfig(raw) == IF raw = InvalidJSON THEN <<>> ELSE raw

\* the console.log of the catch, one for every row that does not parse
RECURSIVE configWarnings(_, _)
configWarnings(rows, i) ==
    IF i > Len(rows) THEN <<>>
    ELSE (IF rows[i].config = InvalidJSON
          THEN <<[warning |-> "invalid author config", author |-> rows[i].id]>>
          ELSE <<>>) \o configWarnings(rows, i + 1)

\* Faulty variant of generateAuthors: JSON.parse is not guarded, a config that
\* does not parse ends the author generation.
generateAuthorsWithoutCatch(e0, amp) ==
    LET e        == [e0 EXCEPT !.loads = Append(@, "authors")]
        parsed   == [i \in 1..Len(db.authors) |->
                        [db.authors[i] EXCEPT !.config = parseAuthorConfig(@)]]
        keep(a)  == a.posts_number > 0
        authorsData == IF ~config.displayEmptyAuthors THEN SelectSeq(parsed, keep)
                                                      ELSE parsed
        authorTemplates == [i \in 1..Len(authorsData) |->
                               resolveTemplate("author", authorsData[i].config)]
    IN  IF \E i \in 1..Len(db.authors) : db.authors[i].config = InvalidJSON
        THEN e
        ELSE generateListing(e, amp, "author", authorsData, authorTemplates)

generateAuthors(e0, amp) ==
    LET e        == [e0 EXCEPT !.loads = Append(@, "authors"),
                               !.warnings = @ \o configWarnings(db.authors, 1)]
        parsed   == [i \in 1..Len(db.authors) |->
                        [db.authors[i] EXCEPT !.config = parseAuthorConfig(@)]]
        keep(a)  == a.posts_number > 0
        authorsData == IF ~config.displayEmptyAuthors THEN SelectSeq(parsed, keep)
                                                      ELSE parsed
        authorTemplates == [i \in 1..Len(authorsData) |->
                               resolveTemplate("author", authorsData[i].config)]
    IN  generateListing(e, amp, "author", authorsData, authorTemplates)

(***************************************************************************)
(* generate404s, generateSearch, generateFeeds, generateCSS,               *)
(* generatePartials                                                        *)
(***************************************************************************)
\* a page without listing: 404.hbs, search.hbs, feed-xml.hbs, feed-json.hbs
generatePlainPage(e, kind, target) ==
    LET c == compileTemplate(e, FALSE, kind, <<kind>>)
        r == renderTemplate(c.e, c.tpl, <<kind>>, FALSE, kind, 0, 1,
                            PlainContext(kind))
    IN  IF c.tpl = NoTpl THEN c.e
        ELSE saveOutput(r.e, "saveOutputFile", target, 0, r.output, FALSE, kind, 0)

generate404s(e) ==
    IF ~config.create404page THEN e ELSE generatePlainPage(e, "404", "404.html")

generateSearch(e) ==
    IF ~config.createSearchPage THEN e
    ELSE generatePlainPage(e, "search", "search.html")

generateFeeds(e) ==
    generatePlainPage(generatePlainPage(e, "feed-xml", "feed.xml"),
                      "feed-json", "feed.json")

\* visual-override.js exists and throws
generateCSS(e) ==
    IF CssFault \in faults
    THEN [e EXCEPT !.errorLog = Append(@, Err("1003", <<"visual-override">>))]
    ELSE e

RequiredPartials == <<"header", "footer">>
OptionalPartials == <<"pagination", "menu", "amp-footer", "amp-head", "amp-menu",
                      "amp-pagination", "amp-share-buttons">>

RECURSIVE registerPartials(_, _, _)
registerPartials(e, allPartials, i) ==
    IF i > Len(allPartials) THEN e
    ELSE registerPartials(
             IF PartialFault(allPartials[i]) \in faults
             THEN [e EXCEPT !.errorLog = Append(@, Err("1001", <<allPartials[i]>>))]
             ELSE e,
             allPartials, i + 1)

generatePartials(e) == registerPartials(e, RequiredPartials \o OptionalPartials, 1)

(***************************************************************************)
(* loadContentStructure(): the content cache, rebuilt from the store       *)
(***************************************************************************)
EmptyCache == [post |-> <<>>, tag |-> <<>>, author |-> <<>>]

RowsById(rows) ==
    [id \in {rows[i].id : i \in 1..Len(rows)} |->
        rows[CHOOSE i \in 1..Len(rows) : rows[i].id = id]]

getCachedItems ==
    [post |-> RowsById(db.posts), tag |-> RowsById(db.tags),
     author |-> RowsById(db.authors)]

(***************************************************************************)
(* The pipeline                                                            *)
(***************************************************************************)
Commit(e) ==
    /\ errorLog'   = e.errorLog
    /\ loads' = e.loads
    /\ compiled'   = e.compiled
    /\ rendered'   = e.rendered
    /\ written'    = e.written
    /\ progress'   = e.progress
    /\ warnings'   = e.warnings

\* Faulty variant of Render: the validation result is not looked at.
RenderWithoutValidation ==
    /\ pc \in {"idle", "returned"}
    /\ renders < MaxRenders
    /\ renders' = renders + 1
    /\ outputDir' = OutputRoot
    /\ loads' = <<>> /\ compiled' = <<>> /\ rendered' = <<>>
    /\ written' = <<>> /\ progress' = <<>> /\ warnings' = <<>>
    /\ pc' = "prepare"
    /\ result' = <<"pending">>
    /\ previous' = [written |-> written, rendered |-> rendered, result |-> result]
    /\ UNCHANGED <<errorLog, env, ampMode, helperDir, domain, cachedItems>>

\* Faulty variant of RenderCall: render() begins with an empty error log.
RenderCallResettingLog ==
    /\ renders' = renders + 1
    /\ previous' = [written |-> written, rendered |-> rendered, result |-> result]
    /\ outputDir' = OutputRoot
    /\ loads' = <<>> /\ compiled' = <<>> /\ rendered' = <<>>
    /\ written' = <<>> /\ progress' = <<>> /\ warnings' = <<>>
    /\ IF themeValid
       THEN /\ pc' = "prepare"
            /\ result' = <<"pending">>
            /\ errorLog' = <<>>
       ELSE /\ errorLog' = <<Err("1010", <<"config.json">>)>>
            /\ result' = <<"errorLog", errorLog'>>
            /\ pc' = "returned"
    /\ UNCHANGED <<env, ampMode, helperDir, domain, cachedItems>>

\* Faulty variant of RenderCall: the theme is validated before the output
\* directory is emptied, and a failed validation returns at once.
RenderCallValidatingFirst ==
    /\ renders' = renders + 1
    /\ previous' = [written |-> written, rendered |-> rendered, result |-> result]
    /\ outputDir' = OutputRoot
    /\ IF themeValid
       THEN /\ pc' = "prepare"
            /\ result' = <<"pending">>
            /\ loads' = <<>> /\ compiled' = <<>> /\ rendered' = <<>>
            /\ written' = <<>> /\ progress' = <<>> /\ warnings' = <<>>
            /\ UNCHANGED errorLog
       ELSE /\ errorLog' = Append(errorLog, Err("1010", <<"config.json">>))
            /\ result' = <<"errorLog", errorLog'>>
            /\ pc' = "returned"
            /\ UNCHANGED effs
    /\ UNCHANGED <<env, ampMode, helperDir, domain, cachedItems>>

\* the body of render() up to renderSite(): setIO, emptyOutputDir, themeIsValid
\* and the failure branch; nothing resets this.errorLog
RenderCall ==
    /\ renders' = renders + 1
    /\ previous' = [written |-> written, rendered |-> rendered, result |-> result]
    /\ outputDir' = OutputRoot
    /\ loads' = <<>> /\ compiled' = <<>> /\ rendered' = <<>>
    /\ written' = <<>> /\ progress' = <<>> /\ warnings' = <<>>
    /\ IF themeValid
       THEN /\ pc' = "prepare"
            /\ result' = <<"pending">>
            /\ UNCHANGED errorLog
       ELSE /\ errorLog' = Append(errorLog, Err("1010", <<"config.json">>))
            /\ result' = <<"errorLog", errorLog'>>
            /\ pc' = "returned"
    /\ UNCHANGED <<env, ampMode, helperDir, domain, cachedItems>>

\* a render() call on a Renderer that is not inside one
Render ==
    /\ pc \in {"idle", "returned"}
    /\ renders < MaxRenders
    /\ RenderCall

\* what preparePageToRender loads, in order
PrepareLoads == <<"siteConfig", "translations", "db", "themeConfig", "themeFiles",
                  "helpers", "contentStructure", "commonData">>

\* preparePageToRender()
PreparePageToRender ==
    /\ pc = "prepare"
    /\ domain' = SiteDomain                 \* loadSiteConfig
    /\ helperDir' = outputDir               \* loadThemeFiles
    /\ cachedItems' = getCachedItems        \* loadContentStructure
    /\ Commit(generatePartials(
              sendProgress(sendProgress(sendProgress(sendProgress(
                  [CurEff EXCEPT !.loads = @ \o PrepareLoads],
                  1), 2), 5), 10)))
    /\ pc' = "frontpage"
    /\ UNCHANGED <<env, ampMode, outputDir, result, renders, previous>>

InAmpPass == pc \in {"amp-frontpage", "amp-posts", "amp-tags", "amp-authors"}

\* Faulty variant of Step: the pipeline gives up once an error is on record.
StepStoppingOnError(from, to, ampFrom, ampTo) ==
    /\ pc \in {from, ampFrom}
    /\ pc' = IF errorLog # <<>> THEN "aborted"
             ELSE IF pc = from THEN to ELSE ampTo

\* generateWWW / generateAMP call the kinds one after the other and ignore what
\* they return
Step(from, to, ampFrom, ampTo) ==
    /\ pc \in {from, ampFrom}
    /\ pc' = IF pc = from THEN to ELSE ampTo

Rest == <<env, ampMode, outputDir, helperDir, domain, cachedItems, result, renders,
          previous>>

GenerateFrontpage ==
    /\ Step("frontpage", "posts", "amp-frontpage", "amp-posts")
    /\ Commit(IF InAmpPass THEN generateFrontpage(CurEff, TRUE)
              ELSE generateFrontpage(sendProgress(CurEff, 11), FALSE))
    /\ UNCHANGED Rest

GeneratePosts ==
    /\ Step("posts", "tags", "amp-posts", "amp-tags")
    /\ Commit(IF InAmpPass THEN generatePosts(CurEff, TRUE)
              ELSE generatePosts(sendProgress(CurEff, 20), FALSE))
    /\ UNCHANGED Rest

GenerateTags ==
    /\ Step("tags", "authors", "amp-tags", "amp-authors")
    /\ Commit(IF InAmpPass THEN generateTags(CurEff, TRUE)
              ELSE generateTags(sendProgress(CurEff, 60), FALSE))
    /\ UNCHANGED Rest

GenerateAuthors ==
    /\ Step("authors", "404", "amp-authors", "finish")
    /\ Commit(IF InAmpPass THEN generateAuthors(CurEff, TRUE)
              ELSE generateAuthors(sendProgress(CurEff, 70), FALSE))
    /\ UNCHANGED Rest

Generate404s ==
    /\ pc = "404"
    /\ Commit(generate404s(sendProgress(CurEff, 75)))
    /\ pc' = "search"
    /\ UNCHANGED Rest

GenerateSearch ==
    /\ pc = "search"
    /\ Commit(generateSearch(CurEff))
    /\ pc' = "feeds"
    /\ UNCHANGED Rest

GenerateFeeds ==
    /\ pc = "feeds"
    /\ Commit(generateFeeds(CurEff))
    /\ pc' = "css"
    /\ UNCHANGED Rest

GenerateCSS ==
    /\ pc = "css"
    /\ Commit(generateCSS(CurEff))
    /\ pc' = "copy"
    /\ UNCHANGED Rest

\* copyFiles(): root, asset and media files go to the output directory
CopyFiles ==
    /\ pc = "copy"
    /\ Commit(sendProgress(CurEff, 80))
    /\ pc' = "sitemap"
    /\ UNCHANGED Rest

\* await generateSitemap(), then sendProgress(90, ...)
GenerateSitemap ==
    /\ pc = "sitemap"
    /\ Commit(sendProgress(CurEff, 90))
    /\ pc' = "amp"
    /\ UNCHANGED Rest

\* Faulty variant of GenerateAMP: the AMP pass is skipped once an error is on
\* record.
GenerateAMPOnlyWhenClean ==
    /\ pc = "amp"
    /\ IF ~config.ampIsEnabled \/ errorLog # <<>>
       THEN /\ pc' = "finish"
            /\ UNCHANGED <<flds, effs>>
       ELSE /\ ampMode' = TRUE
            /\ outputDir' = Append(outputDir, "amp")
            /\ helperDir' = Append(helperDir, "amp")
            /\ domain' = domain \o <<"/", "amp">>
            /\ cachedItems' = getCachedItems
            /\ loads' = Append(loads, "contentStructure")
            /\ pc' = "amp-frontpage"
            /\ UNCHANGED <<errorLog, compiled, rendered, written, progress, warnings>>
    /\ UNCHANGED <<env, result, renders, previous>>

\* Faulty variant of GenerateAMP: the AMP pass starts on the cache of the
\* standard pass, loadContentStructure is not called again.
GenerateAMPWithoutReload ==
    /\ pc = "amp"
    /\ IF ~config.ampIsEnabled
       THEN /\ pc' = "finish"
            /\ UNCHANGED <<flds, effs>>
       ELSE /\ ampMode' = TRUE
            /\ outputDir' = Append(outputDir, "amp")
            /\ helperDir' = Append(helperDir, "amp")
            /\ domain' = domain \o <<"/", "amp">>
            /\ pc' = "amp-frontpage"
            /\ UNCHANGED <<errorLog, cachedItems, effs>>
    /\ UNCHANGED <<env, result, renders, previous>>

\* Faulty variant of GenerateAMP: the template helper keeps writing under the
\* standard output root.
GenerateAMPKeepingHelperRoot ==
    /\ pc = "amp"
    /\ IF ~config.ampIsEnabled
       THEN /\ pc' = "finish"
            /\ UNCHANGED <<flds, effs>>
       ELSE /\ ampMode' = TRUE
            /\ outputDir' = Append(outputDir, "amp")
            /\ domain' = domain \o <<"/", "amp">>
            /\ cachedItems' = getCachedItems
            /\ loads' = Append(loads, "contentStructure")
            /\ pc' = "amp-frontpage"
            /\ UNCHANGED <<errorLog, helperDir, compiled, rendered, written, progress,
                           warnings>>
    /\ UNCHANGED <<env, result, renders, previous>>

\* generateAMP() up to its first generate call
GenerateAMP ==
    /\ pc = "amp"
    /\ IF ~config.ampIsEnabled
       THEN /\ pc' = "finish"
            /\ UNCHANGED <<flds, effs>>
       ELSE /\ ampMode' = TRUE
            /\ outputDir' = Append(outputDir, "amp")
            /\ helperDir' = Append(helperDir, "amp")
            /\ domain' = domain \o <<"/", "amp">>
            /\ cachedItems' = getCachedItems
            /\ loads' = Append(loads, "contentStructure")
            /\ pc' = "amp-frontpage"
            /\ UNCHANGED <<errorLog, compiled, rendered, written, progress, warnings>>
    /\ UNCHANGED <<env, result, renders, previous>>

\* renderFullPreview(): sendProgress(100, ...)
Finish ==
    /\ pc = "finish"
    /\ progress' = Append(progress, 100)
    /\ pc' = "done"
    /\ UNCHANGED <<env, flds, loads, compiled, rendered, written, warnings, result,
                   renders, previous>>

\* Faulty variant of renderResult: success is reported whatever the log holds.
renderResultIgnoringLog(log) == <<"true">>

\* render(): true when the log is empty, else the log
renderResult(log) == IF Len(log) = 0 THEN <<"true">> ELSE <<"errorLog", log>>

\* render() after renderSite()
Return ==
    /\ pc = "done"
    /\ result' = renderResult(errorLog)
    /\ pc' = "returned"
    /\ UNCHANGED <<env, flds, effs, renders, previous>>

Next ==
    \/ Render
    \/ PreparePageToRender
    \/ GenerateFrontpage
    \/ GeneratePosts
    \/ GenerateTags
    \/ GenerateAuthors
    \/ Generate404s
    \/ GenerateSearch
    \/ GenerateFeeds
    \/ GenerateCSS
    \/ CopyFiles
    \/ GenerateSitemap
    \/ GenerateAMP
    \/ Finish
    \/ Return

(***************************************************************************)
(* The environments explored                                               *)
(***************************************************************************)
Variant == "landing"        \* the variant the theme declares for every kind
Names   == <<"a", "b", "c", "d", "e">>

\* The store of the fault-injection runs: entities that differ in override slug
\* and post count, posts ordered by id, tags by name, authors by username.
PostTemplates == <<"unknown", "landing", "", "null">>
TagData       == << <<"unknown">>, <<"landing">>, <<>>, <<"">> >>
TagPosts      == <<2, 1, 0, 3>>
AuthorConfig  == << <<"">>, <<"landing">>, <<>>, <<"unknown">> >>
AuthorPosts   == <<2, 1, 0, 3>>

PostRow(i)   == [id |-> i, slug |-> Names[i], template |-> PostTemplates[i]]
TagRow(i)    == [id |-> i, slug |-> Names[i], postsNumber |-> TagPosts[i],
                 additionalData |-> TagData[i]]
AuthorRow(i) == [id |-> i, slug |-> Names[i], config |-> AuthorConfig[i],
                 posts_number |-> AuthorPosts[i], postsNumber |-> AuthorPosts[i]]

Catalog == [posts   |-> [i \in 1..MaxPosts   |-> PostRow(i)],
            tags    |-> [i \in 1..MaxTags    |-> TagRow(i)],
            authors |-> [i \in 1..MaxAuthors |-> AuthorRow(i)]]

\* siteConfig.advanced and themeConfig as the renderer reads them
SiteConfig(amp, empty, perPage, tagsPrefix, authorsPrefix, cleanUrls) ==
    [ampIsEnabled |-> amp, displayEmptyTags |-> empty, displayEmptyAuthors |-> empty,
     postsPerPage |-> perPage, tagsPostsPerPage |-> perPage,
     authorsPostsPerPage |-> perPage,
     templates |-> [post |-> {Variant}, tag |-> {Variant}, author |-> {Variant}],
     create404page |-> TRUE, createSearchPage |-> TRUE,
     tagsPrefix |-> tagsPrefix, authorsPrefix |-> authorsPrefix,
     pageName |-> "page", cleanUrls |-> cleanUrls]

Config(amp, empty, perPage) == SiteConfig(amp, empty, perPage, "", "authors", FALSE)

\* the pages a listing of total items has under the configured page size
PagesOf(total, raw) ==
    LET perPage == postsPerPageOf(raw)
    IN  IF total <= perPage \/ perPage <= 0 THEN 1 ELSE CeilDiv(total, perPage)

TemplateFiles(cfg) ==
    LET std == {<<"index">>, <<"post">>, <<"tag">>, <<"author">>,
                <<"post", "-", Variant>>, <<"tag", "-", Variant>>,
                <<"author", "-", Variant>>, <<"404">>, <<"search">>,
                <<"feed-xml">>, <<"feed-json">>}
        amp == {<<"amp-index">>, <<"amp-post">>, <<"amp-tag">>, <<"amp-author">>}
    IN  IF cfg.ampIsEnabled THEN std \cup amp ELSE std

RenderPoints(cfg, store) ==
    LET passes == IF cfg.ampIsEnabled THEN BOOLEAN ELSE {FALSE}
        rows(s) == {s[i] : i \in 1..Len(s)}
    IN  {RenderFault(a, "index", 0, p) :
            a \in passes, p \in 1..PagesOf(Len(store.posts), cfg.postsPerPage)}
        \cup {RenderFault(a, "post", r.id, 1) : a \in passes, r \in rows(store.posts)}
        \cup UNION {{RenderFault(a, "tag", r.id, p) :
                        a \in passes, p \in 1..PagesOf(r.postsNumber, cfg.tagsPostsPerPage)}
                    : r \in rows(store.tags)}
        \cup UNION {{RenderFault(a, "author", r.id, p) :
                        a \in passes,
                        p \in 1..PagesOf(r.postsNumber, cfg.authorsPostsPerPage)}
                    : r \in rows(store.authors)}
        \cup {RenderFault(FALSE, k, 0, 1) : k \in {"404", "search", "feed-xml", "feed-json"}}

FaultSpace(cfg, store) ==
    {FileFault(f, st) : f \in TemplateFiles(cfg), st \in {"missing", "empty", "bad"}}
    \cup RenderPoints(cfg, store)
    \cup {PartialFault("header"), PartialFault("pagination"), CssFault}

\* no theme file is broken in two ways at once
Consistent(fs) ==
    \A f, g \in fs : (f.type = "file" /\ g.type = "file" /\ f.file = g.file) => f = g

\* nothing broken, one fault, or two faults at once
FaultSets(cfg, store) ==
    {{}} \cup {fs \in {{f, g} : f, g \in FaultSpace(cfg, store)} : Consistent(fs)}

Start ==
    /\ pc = "idle"
    /\ errorLog = <<>>
    /\ ampMode = FALSE
    /\ outputDir = <<>>
    /\ helperDir = <<>>
    /\ domain = SiteDomain
    /\ cachedItems = EmptyCache
    /\ loads = <<>> /\ compiled = <<>> /\ rendered = <<>>
    /\ written = <<>> /\ progress = <<>> /\ warnings = <<>>
    /\ result = <<"none">>
    /\ renders = 0
    /\ previous = [written |-> <<>>, rendered |-> <<>>, result |-> <<"none">>]

Init ==
    /\ themeValid \in BOOLEAN
    /\ config \in {Config(amp, TRUE, <<1>>) : amp \in BOOLEAN}
                 \cup {Config(amp, FALSE, <<5>>) : amp \in BOOLEAN}
    /\ db = Catalog
    /\ faults \in IF themeValid THEN FaultSets(config, db) ELSE {{}}
    /\ Start

Spec == Init /\ [][Next]_vars

(***************************************************************************)
(* The listing environments: no fault, every page size and URL setting,    *)
(* stores from empty to one listing larger than the unlimited page size.   *)
(***************************************************************************)
MaxPages     == 6       \* listings of more pages are left out
LargeListing == 1000    \* an item count above UnlimitedPageSize

PageSizes == {NaN, <<-1>>, <<0>>, <<1>>, <<2>>, <<5>>, <<999>>}

\* posts per tag and per author
ListingCounts == {<<2, 1, 0, 3>>, <<6, 5, 4, 0>>, <<LargeListing, 0, 6, 1>>}

Store(nPosts, counts) ==
    [posts   |-> [i \in 1..nPosts     |-> PostRow(i)],
     tags    |-> [i \in 1..MaxTags    |-> [TagRow(i) EXCEPT !.postsNumber = counts[i]]],
     authors |-> [i \in 1..MaxAuthors |-> [AuthorRow(i) EXCEPT
                                              !.posts_number = counts[i],
                                              !.postsNumber = counts[i]]]]

\* the same store with every post, tag and author asking for the variant the
\* theme declares
SameVariant(store) ==
    [posts   |-> [i \in DOMAIN store.posts |->
                     [store.posts[i] EXCEPT !.template = Variant]],
     tags    |-> [i \in DOMAIN store.tags |->
                     [store.tags[i] EXCEPT !.additionalData = <<Variant>>]],
     authors |-> [i \in DOMAIN store.authors |->
                     [store.authors[i] EXCEPT !.config = <<Variant>>]]]

\* the same store with one more post per author that is not published: the
\* posts table holds it, so the authors query counts it, and no listing shows it
WithDrafts(store) ==
    [store EXCEPT !.authors = [i \in DOMAIN store.authors |->
                                  [store.authors[i] EXCEPT !.posts_number = @ + 1]]]

\* the same store with a config column of the first author that is no JSON text
WithBrokenConfig(store) ==
    [store EXCEPT !.authors = [i \in DOMAIN store.authors |->
                                  IF i = 1
                                  THEN [store.authors[i] EXCEPT !.config = InvalidJSON]
                                  ELSE store.authors[i]]]

ListingStores ==
    {Store(n, c) : n \in 0..MaxPosts, c \in ListingCounts}
    \cup {SameVariant(Store(MaxPosts, TagPosts)),
          WithDrafts(Store(MaxPosts, <<LargeListing, 0, 6, 1>>)),
          WithBrokenConfig(Store(MaxPosts, TagPosts)),
          Store(0, <<0, 0, 0, 0>>)}

ListingConfigs ==
    {SiteConfig(amp, empty, perPage, tagsPrefix, authorsPrefix, cleanUrls) :
        amp \in BOOLEAN, empty \in BOOLEAN, perPage \in PageSizes,
        tagsPrefix \in {"", "tags"}, authorsPrefix \in {"", "authors"},
        cleanUrls \in BOOLEAN}

Fits(cfg, store) ==
    /\ \A i \in 1..Len(store.tags) :
          PagesOf(store.tags[i].postsNumber, cfg.tagsPostsPerPage) <= MaxPages
    /\ \A i \in 1..Len(store.authors) :
          PagesOf(store.authors[i].postsNumber, cfg.authorsPostsPerPage) <= MaxPages

ListingInit ==
    /\ themeValid = TRUE
    /\ config \in ListingConfigs
    /\ db \in {st \in ListingStores : Fits(config, st)}
    /\ faults = {}
    /\ Start

ListingSpec == ListingInit /\ [][Next]_vars

(***************************************************************************)
(* Fairness.  render() runs on one thread of control and nothing suspends  *)
(* it for good: while a step of the pipeline is waiting to run, the thread *)
(* runs it.  Running is the set of positions at which a pipeline step is   *)
(* waiting; Advance is any move of the position.                           *)
(***************************************************************************)
pos == <<pc, renders>>

Running == {"prepare", "frontpage", "posts", "tags", "authors", "404", "search",
            "feeds", "css", "copy", "sitemap", "amp", "amp-frontpage", "amp-posts",
            "amp-tags", "amp-authors", "finish", "done"}

Positions == Running \cup {"idle", "returned"}

CanStep == pc \in Running \/ (pc \in {"idle", "returned"} /\ renders < MaxRenders)

Advance ==
    /\ CanStep
    /\ pc' \in Positions
    /\ renders' \in {renders, renders + 1}

FairSpec == Spec /\ WF_pos(Advance)

(***************************************************************************)
(* Two render() calls on one Renderer over the same store, theme and       *)
(* configuration: the second call starts when the first has returned.      *)
(***************************************************************************)
RenderAgain ==
    /\ pc = "returned"
    /\ renders = MaxRenders
    /\ RenderCall

RerunNext == Next \/ RenderAgain

\* nothing broken or one fault
RerunInit ==
    /\ themeValid \in BOOLEAN
    /\ config \in {Config(amp, TRUE, <<1>>) : amp \in BOOLEAN}
    /\ db = Catalog
    /\ faults \in IF themeValid
                  THEN {{}} \cup {{f} : f \in FaultSpace(config, db)}
                  ELSE {{}}
    /\ Start

RerunSpec == RerunInit /\ [][RerunNext]_vars

(***************************************************************************)
(* Two render() calls on one Renderer between which the theme is edited:   *)
(* themeIsValid and loadTemplate read the theme's files at each call.      *)
(***************************************************************************)
\* the broken theme file is repaired after the first call has returned
RepairTheme ==
    /\ pc = "returned"
    /\ renders = MaxRenders
    /\ faults # {}
    /\ faults' = {}
    /\ UNCHANGED <<themeValid, config, db, pc, flds, effs, result, renders, previous>>

\* the theme's config.json is corrupted after the first call has returned
BreakThemeConfig ==
    /\ pc = "returned"
    /\ renders = MaxRenders
    /\ themeValid
    /\ themeValid' = FALSE
    /\ UNCHANGED <<config, db, faults, pc, flds, effs, result, renders, previous>>

EditNext == RerunNext \/ RepairTheme \/ BreakThemeConfig

EditSpec == RerunInit /\ [][EditNext]_vars

(***************************************************************************)
(* Vocabulary of the properties                                            *)
(***************************************************************************)
Pipeline == <<"idle", "prepare", "frontpage", "posts", "tags", "authors", "404",
              "search", "feeds", "css", "copy", "sitemap", "amp", "amp-frontpage",
              "amp-posts", "amp-tags", "amp-authors", "finish", "done", "returned">>

PcIndex(p) == CHOOSE i \in 1..Len(Pipeline) : Pipeline[i] = p

StepOf(amp, kind) ==
    CASE kind = "index"  -> IF amp THEN "amp-frontpage" ELSE "frontpage"
      [] kind = "post"   -> IF amp THEN "amp-posts" ELSE "posts"
      [] kind = "tag"    -> IF amp THEN "amp-tags" ELSE "tags"
      [] kind = "author" -> IF amp THEN "amp-authors" ELSE "authors"

\* the current render() call has run the generation of this kind in this pass
KindFinished(amp, kind) ==
    /\ themeValid
    /\ amp => config.ampIsEnabled
    /\ PcIndex(pc) > PcIndex(StepOf(amp, kind))

DefaultFile(amp, kind) ==
    IF amp THEN CASE kind = "index"  -> <<"amp-index">>
                  [] kind = "post"   -> <<"amp-post">>
                  [] kind = "tag"    -> <<"amp-tag">>
                  [] kind = "author" -> <<"amp-author">>
           ELSE <<kind>>

Entries(s) == {s[i] : i \in 1..Len(s)}
Count(s, P(_)) == Cardinality({i \in 1..Len(s) : P(s[i])})

\* a compileTemplate call of this kind and pass returned false
CompileFailed(amp, kind) ==
    \E c \in Entries(compiled) : c.amp = amp /\ c.kind = kind /\ c.tpl = NoTpl

\* the page number a save call targets
PageOfWrite(w) == IF w.page = 0 THEN 1 ELSE w.page

(***************************************************************************)
(* C1: render() returns true exactly when the error log is empty at the    *)
(* end of the pass; in every other case, a failed theme validation         *)
(* included, it returns the error log itself with all its entries in       *)
(* order.                                                                  *)
(***************************************************************************)
C1_ReturnsTrueIffLogEmpty ==
    pc = "returned" =>
        IF errorLog = <<>> THEN result = <<"true">>
                           ELSE result = <<"errorLog", errorLog>>

C1_Witness ==
    /\ pc = "returned" /\ themeValid
    /\ result[1] = "errorLog" /\ Len(result[2]) >= 2
    /\ result[2][1].code = "1001" /\ result[2][Len(result[2])].code = "1002"

(***************************************************************************)
(* C2: the error log is append-only: no step of the pipeline (partials,    *)
(* compile, render, CSS, either pass) shortens it or changes an entry it   *)
(* already holds.                                                          *)
(***************************************************************************)
C2_ErrorLogAppendOnly == [][IsPrefix(errorLog, errorLog')]_vars

C2_Witness ==
    /\ InAmpPass
    /\ Len(errorLog) >= 2
    /\ errorLog[1].code = "1001" /\ errorLog[1].file = <<"header">>
    /\ errorLog[Len(errorLog)].code = "1002"

(***************************************************************************)
(* C3: once theme validation has passed, the pass reaches Done (the        *)
(* progress-100 notification) whatever compile and render failures occur.  *)
(***************************************************************************)
Done == pc = "done" /\ progress # <<>> /\ progress[Len(progress)] = 100

C3_ValidThemeReachesDone == [](pc = "prepare" => <>Done)

C3_Witness ==
    /\ Done
    /\ \E c \in Entries(compiled) : c.tpl = NoTpl
    /\ \E r \in Entries(rendered) : ~r.ok

(***************************************************************************)
(* C4: with an invalid theme descriptor the pass never starts: nothing is  *)
(* loaded, compiled, rendered or written, no AMP step runs, each render()  *)
(* call appends exactly one entry and returns the error log.               *)
(***************************************************************************)
C4_InvalidThemeNeverStarts ==
    ~themeValid =>
        /\ pc \in {"idle", "returned"}
        /\ loads = <<>> /\ compiled = <<>> /\ rendered = <<>> /\ written = <<>>
        /\ progress = <<>>
        /\ cachedItems = EmptyCache /\ ~ampMode /\ domain = SiteDomain
        /\ Len(errorLog) = renders
        /\ \A i \in 1..Len(errorLog) : errorLog[i].code = "1010"
        /\ pc = "returned" => result = <<"errorLog", errorLog>>

C4_Witness == ~themeValid /\ pc = "returned" /\ Len(errorLog) = 1

(***************************************************************************)
(* The pages a kind has to emit, read off the store and the configuration  *)
(***************************************************************************)
Shown(kind, row) ==
    CASE kind = "post"   -> TRUE
      [] kind = "tag"    -> config.displayEmptyTags \/ row.postsNumber > 0
      [] kind = "author" -> config.displayEmptyAuthors \/ row.posts_number > 0

StoreRows(kind) ==
    CASE kind = "post"   -> Entries(db.posts)
      [] kind = "tag"    -> Entries(db.tags)
      [] kind = "author" -> Entries(db.authors)

\* <<entity, page>> for every page of the kind
ExpectedPages(kind) ==
    CASE kind = "index"  -> {<<0, p>> : p \in 1..PagesOf(Len(db.posts), config.postsPerPage)}
      [] kind = "post"   -> {<<r.id, 1>> : r \in StoreRows("post")}
      [] kind = "tag"    ->
            UNION {{<<r.id, p>> : p \in 1..PagesOf(r.postsNumber, config.tagsPostsPerPage)}
                   : r \in {x \in StoreRows("tag") : Shown("tag", x)}}
      [] kind = "author" ->
            UNION {{<<r.id, p>> : p \in 1..PagesOf(r.postsNumber, config.authorsPostsPerPage)}
                   : r \in {x \in StoreRows("author") : Shown("author", x)}}

RenderingsOf(amp, kind, ent, page) ==
    {i \in 1..Len(rendered) : /\ rendered[i].amp = amp /\ rendered[i].kind = kind
                              /\ rendered[i].ent = ent /\ rendered[i].page = page}

WritesOf(amp, kind, ent, page) ==
    {i \in 1..Len(written) : /\ written[i].amp = amp /\ written[i].kind = kind
                             /\ written[i].ent = ent /\ PageOfWrite(written[i]) = page}

OfKind(seq, amp, kind) == {i \in 1..Len(seq) : seq[i].amp = amp /\ seq[i].kind = kind}

Passes == BOOLEAN       \* FALSE: the standard pass, TRUE: the AMP pass

(***************************************************************************)
(* C5: a page whose render throws gets no output file: the file writes of  *)
(* a listing kind are exactly the pages whose evaluation succeeded, one    *)
(* write each.  The code passes the empty output of a failed render on to  *)
(* saveOutput...File, so this is violated.                                 *)
(***************************************************************************)
C5_WritesOnlySuccessfulPages ==
    \A amp \in Passes, kind \in Kinds :
        /\ \A i \in OfKind(written, amp, kind) :
              \E j \in RenderingsOf(amp, kind, written[i].ent, PageOfWrite(written[i])) :
                  rendered[j].ok
        /\ \A j \in OfKind(rendered, amp, kind) :
              Cardinality(WritesOf(amp, kind, rendered[j].ent, rendered[j].page))
                  = IF rendered[j].ok THEN 1 ELSE 0

(***************************************************************************)
(* C6: a throwing render is isolated: it appends exactly one error entry,  *)
(* and every page of every entity of the kind is still rendered, each      *)
(* successfully rendered one being written.                                *)
(***************************************************************************)
Is1002(x) == x.code = "1002"
HasFailed(r) == ~r.ok

C6_SiblingPagesProceed ==
    \A amp \in Passes, kind \in Kinds :
        (KindFinished(amp, kind) /\ ~CompileFailed(amp, kind)) =>
            \A pt \in ExpectedPages(kind) :
                /\ Cardinality(RenderingsOf(amp, kind, pt[1], pt[2])) = 1
                /\ \A j \in RenderingsOf(amp, kind, pt[1], pt[2]) :
                      rendered[j].ok => WritesOf(amp, kind, pt[1], pt[2]) # {}

C6_OneEntryPerFailure ==
    pc \in Running =>
        Count(errorLog', Is1002) - Count(errorLog, Is1002)
            = Count(rendered', HasFailed) - Count(rendered, HasFailed)

C6_PartialFailureIsolation ==
    []C6_SiblingPagesProceed /\ [][C6_OneEntryPerFailure]_vars

C6_Witness ==
    /\ KindFinished(FALSE, "tag")
    /\ \E j \in RenderingsOf(FALSE, "tag", 2, 1) : ~rendered[j].ok
    /\ \E j \in RenderingsOf(FALSE, "tag", 1, 1) : rendered[j].ok
    /\ \E j \in RenderingsOf(FALSE, "tag", 3, 1) : rendered[j].ok
    /\ WritesOf(FALSE, "tag", 1, 1) # {} /\ WritesOf(FALSE, "tag", 3, 1) # {}
    /\ Count(errorLog, Is1002) = 1

(***************************************************************************)
(* C7: when compileTemplate returns false for the DEFAULT template of a    *)
(* listing kind, an error is recorded and no page of that kind is rendered *)
(* or written in that pass.                                                *)
(***************************************************************************)
C7_DefaultCompileFailureEmitsNothing ==
    \A c \in Entries(compiled) :
        (c.kind \in Kinds /\ c.file = DefaultFile(c.amp, c.kind) /\ c.tpl = NoTpl) =>
            /\ OfKind(rendered, c.amp, c.kind) = {}
            /\ OfKind(written, c.amp, c.kind) = {}
            /\ \E x \in Entries(errorLog) : x.code = "1001" /\ x.file = c.file

C7_Witness ==
    /\ pc = "returned"
    /\ \E c \in Entries(compiled) : /\ c.kind = "tag" /\ ~c.amp
                                    /\ c.file = <<"tag">> /\ c.tpl = NoTpl
    /\ OfKind(written, FALSE, "post") # {}
    /\ OfKind(written, FALSE, "author") # {}

(***************************************************************************)
(* C8: a compile failure stops its own kind only: every kind that comes    *)
(* later in the same pass, and every kind of the AMP pass, is still        *)
(* generated (its default template is compiled and, unless its own         *)
(* compilation fails, all its pages are rendered).                         *)
(***************************************************************************)
Generated(amp, kind) ==
    /\ \E c \in Entries(compiled) :
          c.amp = amp /\ c.kind = kind /\ c.file = DefaultFile(amp, kind)
    /\ ~CompileFailed(amp, kind) =>
          \A pt \in ExpectedPages(kind) : RenderingsOf(amp, kind, pt[1], pt[2]) # {}

C8_CompileFailureStopsOwnKindOnly ==
    \A a1 \in Passes, k1 \in Kinds :
        CompileFailed(a1, k1) =>
            \A a2 \in Passes, k2 \in Kinds :
                (/\ PcIndex(StepOf(a2, k2)) > PcIndex(StepOf(a1, k1))
                 /\ a2 => config.ampIsEnabled
                 /\ PcIndex(pc) > PcIndex(StepOf(a2, k2)))
                    => Generated(a2, k2)

C8_Witness ==
    /\ pc = "returned"
    /\ CompileFailed(FALSE, "index")
    /\ \A k \in {"post", "tag", "author"} : OfKind(rendered, FALSE, k) # {}
    /\ \A k \in Kinds : OfKind(rendered, TRUE, k) # {}

(***************************************************************************)
(* C9: in the standard pass, when compileTemplate returns false for a      *)
(* declared non-default variant some entity asks for, the kind returns     *)
(* before any of its entities is rendered or written.                      *)
(***************************************************************************)
C9_VariantCompileFailureFailsFast ==
    \A c \in Entries(compiled) :
        (~c.amp /\ c.kind \in Kinds /\ c.file # DefaultFile(FALSE, c.kind)
                /\ c.tpl = NoTpl) =>
            /\ OfKind(rendered, FALSE, c.kind) = {}
            /\ OfKind(written, FALSE, c.kind) = {}

C9_Witness ==
    /\ KindFinished(FALSE, "tag")
    /\ \E c \in Entries(compiled) : /\ c.kind = "tag" /\ ~c.amp
                                    /\ c.file = <<"tag", "-", Variant>> /\ c.tpl = NoTpl
    /\ <<1, 1>> \in ExpectedPages("tag")
    /\ OfKind(rendered, FALSE, "post") # {}

(***************************************************************************)
(* C10: in the standard pass a post, tag or author is rendered with the    *)
(* variant its override slug names when that slug is non-empty and         *)
(* declared by the theme for the kind, and with the kind's DEFAULT         *)
(* template when the slug is empty, absent or undeclared; resolution       *)
(* records no error.                                                       *)
(***************************************************************************)
\* the override slug the store holds for a row; <<>> when there is none
OverrideSlug(kind, row) ==
    CASE kind = "post"   -> IF row.template = "null" THEN <<>> ELSE <<row.template>>
      [] kind = "tag"    -> row.additionalData
      [] kind = "author" -> row.config

TemplateFor(kind, row) ==
    LET o == OverrideSlug(kind, row)
    IN  IF o # <<>> /\ o[1] # "" /\ o[1] \in config.templates[kind]
        THEN <<kind, "-", o[1]>>
        ELSE <<kind>>

C10_TemplateResolution ==
    /\ \A r \in Entries(rendered) :
          (~r.amp /\ r.kind \in {"post", "tag", "author"}) =>
              \E row \in StoreRows(r.kind) :
                  row.id = r.ent /\ r.tpl = TemplateFor(r.kind, row)
    /\ (themeValid /\ faults = {}) => errorLog = <<>>

C10_Witness ==
    /\ pc = "returned" /\ errorLog = <<>>
    /\ \E r \in Entries(rendered) : ~r.amp /\ r.kind = "tag" /\ r.ent = 1 /\ r.tpl = <<"tag">>
    /\ \E r \in Entries(rendered) :
          ~r.amp /\ r.kind = "tag" /\ r.ent = 2 /\ r.tpl = <<"tag", "-", Variant>>
    /\ \E r \in Entries(rendered) : ~r.amp /\ r.kind = "post" /\ r.ent = 1 /\ r.tpl = <<"post">>
    /\ \E r \in Entries(rendered) :
          ~r.amp /\ r.kind = "author" /\ r.ent = 1 /\ r.tpl = <<"author">>

(***************************************************************************)
(* The listings: home, tags and authors, their items and page sizes        *)
(***************************************************************************)
Listings == {"index", "tag", "author"}

\* the entities a listing kind is generated for; the home listing is entity 0
ListingEntities(kind) ==
    IF kind = "index" THEN {0}
    ELSE {r.id : r \in {x \in StoreRows(kind) : Shown(kind, x)}}

\* the item count the renderer reads for a listing
ItemsOf(kind, ent) ==
    IF kind = "index" THEN Len(db.posts)
    ELSE LET row == CHOOSE r \in StoreRows(kind) : r.id = ent IN row.postsNumber

SlugOf(kind, ent) ==
    IF kind = "index" THEN ""
    ELSE LET row == CHOOSE r \in StoreRows(kind) : r.id = ent IN row.slug

ConfiguredSize(kind) ==
    postsPerPageOf(CASE kind = "index"  -> config.postsPerPage
                     [] kind = "tag"    -> config.tagsPostsPerPage
                     [] kind = "author" -> config.authorsPostsPerPage)

\* the page size the page plan is described with: 999 for -1 and for sizes <= 0
EffectiveSize(kind) ==
    IF ConfiguredSize(kind) <= 0 THEN UnlimitedPageSize ELSE ConfiguredSize(kind)

\* the renderings of one listing, in the order they were made
PagesRendered(amp, kind, ent) ==
    SelectSeq(rendered, LAMBDA r : r.amp = amp /\ r.kind = kind /\ r.ent = ent)

\* every listing the current pass has finished
FinishedListings ==
    {<<amp, kind, ent>> \in Passes \X Listings \X (0..MaxTags + MaxAuthors) :
        KindFinished(amp, kind) /\ ent \in ListingEntities(kind)}

(***************************************************************************)
(* C11: a home, tag or author listing whose item count is at most the      *)
(* effective page size is emitted as exactly one page, with pagination     *)
(* disabled (globalContext.pagination false) and isFirstPage and           *)
(* isLastPage both true.                                                   *)
(***************************************************************************)
C11_FittingListingIsOnePage ==
    \A l \in FinishedListings :
        ItemsOf(l[2], l[3]) <= EffectiveSize(l[2]) =>
            LET pages == PagesRendered(l[1], l[2], l[3])
            IN  /\ Len(pages) = 1
                /\ pages[1].gc.pagination = <<>>
                /\ pages[1].gc.isFirstPage /\ pages[1].gc.isLastPage

\* a finished pass in which a tag of 5 posts fits the page size 5 and the empty
\* home listing is one page as well
C11_Witness ==
    /\ pc = "returned"
    /\ ConfiguredSize("tag") = 5
    /\ \E l \in FinishedListings :
          l[2] = "tag" /\ ItemsOf("tag", l[3]) = 5
          /\ Len(PagesRendered(l[1], "tag", l[3])) = 1
    /\ Len(db.posts) = 0 /\ Len(PagesRendered(FALSE, "index", 0)) = 1

(***************************************************************************)
(* C12: a configured page size of -1, or any size <= 0, is normalized to   *)
(* 999 for every listing: the items requested for a page and the decision  *)
(* whether to paginate both use 999, so the listing is one page exactly    *)
(* when it has at most 999 items.  The code tests postsPerPage <= 0 before *)
(* it normalizes, so the single page is requested with the raw size and a  *)
(* listing of more than 999 items is still one page: this is violated.     *)
(***************************************************************************)
C12_RequestsUse999 ==
    \A l \in FinishedListings :
        ConfiguredSize(l[2]) <= 0 =>
            \A r \in Entries(PagesRendered(l[1], l[2], l[3])) :
                r.gc.limit = UnlimitedPageSize

C12_OnePageIffAtMost999 ==
    \A l \in FinishedListings :
        ConfiguredSize(l[2]) <= 0 =>
            (Len(PagesRendered(l[1], l[2], l[3])) = 1
                <=> ItemsOf(l[2], l[3]) <= UnlimitedPageSize)

C12_NonPositiveSizeMeans999 == C12_RequestsUse999 /\ C12_OnePageIffAtMost999

(***************************************************************************)
(* C13: in a paginated listing of n items with effective page size s, the  *)
(* page at offset o carries totalPages = ceil(n/s), currentPage =          *)
(* floor(o/s)+1, nextPage = currentPage+1 when currentPage < totalPages    *)
(* and none otherwise, previousPage = currentPage-1 when currentPage > 1   *)
(* and none otherwise; the offsets are the consecutive multiples of s      *)
(* below n.  (None is 0 here: the code's false.)                           *)
(***************************************************************************)
C13_PageNumbering ==
    \A l \in FinishedListings :
        LET pages == PagesRendered(l[1], l[2], l[3])
            n     == ItemsOf(l[2], l[3])
            s     == EffectiveSize(l[2])
        IN  (Len(pages) >= 1 /\ pages[1].gc.pagination # <<>>) =>
                /\ n > s
                /\ Len(pages) = CeilDiv(n, s)
                /\ \A i \in 1..Len(pages) :
                      LET gc == pages[i].gc
                          p  == gc.pagination[1]
                      IN  /\ gc.pagination # <<>>
                          /\ gc.offset = (i - 1) * s /\ gc.offset < n
                          /\ p.totalPages = CeilDiv(n, s)
                          /\ p.currentPage = (gc.offset \div s) + 1
                          /\ p.nextPage = IF p.currentPage < p.totalPages
                                          THEN p.currentPage + 1 ELSE 0
                          /\ p.previousPage = IF p.currentPage > 1
                                              THEN p.currentPage - 1 ELSE 0

\* a finished pass with a tag of 6 posts on three pages of 2
C13_Witness ==
    /\ pc = "returned"
    /\ ConfiguredSize("tag") = 2
    /\ \E l \in FinishedListings :
          /\ l[2] = "tag" /\ ItemsOf("tag", l[3]) = 6
          /\ Len(PagesRendered(l[1], "tag", l[3])) = 3
          /\ PagesRendered(l[1], "tag", l[3])[2].gc.pagination[1].nextPage = 3
          /\ PagesRendered(l[1], "tag", l[3])[3].gc.pagination[1].nextPage = 0

(***************************************************************************)
(* C14: for every item count >= 0 and every page size (-1, 0, 1, 5, 999    *)
(* among them) the number of pages emitted for a listing is                *)
(* ceil(totalItems / effectivePageSize), 1 when totalItems is 0; exactly   *)
(* one emitted page has isFirstPage true, exactly one has isLastPage true, *)
(* and they are the same page exactly when there is one page.  A listing   *)
(* of more than 999 items with a page size <= 0 is emitted as one page,    *)
(* not ceil(n / 999): this is violated.                                    *)
(***************************************************************************)
PlannedPages(kind, ent) ==
    IF ItemsOf(kind, ent) = 0 THEN 1
    ELSE CeilDiv(ItemsOf(kind, ent), EffectiveSize(kind))

FirstPages(pages) == {i \in 1..Len(pages) : pages[i].gc.isFirstPage}
LastPages(pages)  == {i \in 1..Len(pages) : pages[i].gc.isLastPage}

C14_PageCountAndEnds ==
    \A l \in FinishedListings :
        LET pages == PagesRendered(l[1], l[2], l[3])
        IN  /\ Len(pages) = PlannedPages(l[2], l[3])
            /\ Cardinality(FirstPages(pages)) = 1
            /\ Cardinality(LastPages(pages)) = 1
            /\ (FirstPages(pages) = LastPages(pages)) <=> (Len(pages) = 1)

(***************************************************************************)
(* C15: for every item count >= 0 and every page size, the windows         *)
(* (offset, count) requested from the context generator cover the items    *)
(* of the listing exactly once: the per-page item counts sum to            *)
(* totalItems, no item is on two pages and none is left out.  The single   *)
(* page of a listing with page size <= 0 is requested as (0, -1) or        *)
(* (0, 0); read as the unlimited size 999 it still leaves out the items    *)
(* past 999: this is violated.                                             *)
(***************************************************************************)
\* the items a window holds: positions offset+1 .. offset+count of the listing,
\* a count <= 0 standing for the unlimited size
WindowItems(total, offset, count) ==
    LET size == IF count <= 0 THEN UnlimitedPageSize ELSE count
    IN  {k \in 1..total : offset < k /\ k <= offset + size}

C15_WindowsCoverItemsOnce ==
    \A l \in FinishedListings :
        LET pages  == PagesRendered(l[1], l[2], l[3])
            n      == ItemsOf(l[2], l[3])
            win(i) == WindowItems(n, pages[i].gc.offset, pages[i].gc.limit)
        IN  /\ SeqSum([i \in 1..Len(pages) |-> Cardinality(win(i))]) = n
            /\ UNION {win(i) : i \in 1..Len(pages)} = 1..n
            /\ \A i, j \in 1..Len(pages) : i # j => win(i) \cap win(j) = {}

(***************************************************************************)
(* C16: the canonical page URL of a home, tag or author listing carries no *)
(* page-number segment on page 1 (or on the single unpaginated page); on   *)
(* every page n > 1 it is the URL of page 1 followed by the configured     *)
(* page segment and n, that is, placed after the entity's own segment.     *)
(***************************************************************************)
\* the URL ends with these pieces
EndsWith(url, pieces) ==
    /\ Len(url) >= Len(pieces)
    /\ SubSeq(url, Len(url) - Len(pieces) + 1, Len(url)) = pieces

\* the segments of a URL: its pieces without the separators
Segments(url) == SelectSeq(url, LAMBDA p : p # "/")

C16_PageSegmentOnlyAfterPageOne ==
    \A l \in FinishedListings :
        LET pages == PagesRendered(l[1], l[2], l[3])
            first == pages[1].gc.pageUrl
            own   == IF l[2] = "index"
                     THEN Segments(SiteDomain) \o (IF l[1] THEN <<"amp">> ELSE <<>>)
                     ELSE <<SlugOf(l[2], l[3])>>
        IN  Len(pages) >= 1 =>
              /\ config.pageName \notin Entries(first)
              /\ EndsWith(Segments(first), own)
              /\ \A i \in 2..Len(pages) :
                    pages[i].gc.pageUrl
                        = first \o <<config.pageName, "/", ToString(i), "/">>

\* a finished pass whose second tag page is <domain>/tags/a/page/2/
C16_Witness ==
    /\ pc = "returned"
    /\ config.tagsPrefix = "tags"
    /\ \E r \in Entries(rendered) :
          /\ ~r.amp /\ r.kind = "tag" /\ r.page = 2
          /\ r.gc.pageUrl = <<"site", "/", "tags", "/", "a", "/", "page", "/", "2", "/">>
    /\ \E r \in Entries(rendered) :
          /\ ~r.amp /\ r.kind = "index" /\ r.page = 2
          /\ r.gc.pageUrl = <<"site", "/", "page", "/", "2", "/">>

(***************************************************************************)
(* C17: tag and author page URLs, and the pagination context string, are   *)
(* prefixed with the configured prefix segment of the kind when it is not  *)
(* empty, and carry no prefix segment and no empty path segment when it is *)
(* empty; for the tags prefix and for the authors prefix alike.  The       *)
(* author URLs are built as domain + '/' + authorsPrefix + '/' + name      *)
(* without a test for the empty prefix: this is violated.                  *)
(***************************************************************************)
PrefixOf(kind) == IF kind = "tag" THEN config.tagsPrefix ELSE config.authorsPrefix

\* no two separators side by side, and none in front
NoEmptySegment(url) ==
    /\ \A i \in 1..Len(url) - 1 : ~(url[i] = "/" /\ url[i + 1] = "/")
    /\ url # <<>> => url[1] # "/"

\* the segments the URL of a listing page starts with, the site root first
LeadingSegments(amp, kind, ent) ==
    Segments(SiteDomain) \o (IF amp THEN <<"amp">> ELSE <<>>)
        \o (IF PrefixOf(kind) = "" THEN <<>> ELSE <<PrefixOf(kind)>>)
        \o <<SlugOf(kind, ent)>>

C18_NoTwinUrlWhenAmpDisabled ==
    ~config.ampIsEnabled =>
        \A r \in Entries(rendered) : r.kind \in Kinds => r.gc.ampUrl = <<>>

\* a finished pass without AMP that rendered posts, single pages and paginated
\* pages, with page URLs and without twin URLs
C18_Witness ==
    /\ pc = "returned" /\ ~config.ampIsEnabled
    /\ \A k \in Kinds : \E r \in Entries(rendered) :
          r.kind = k /\ r.gc.pageUrl # <<>> /\ r.gc.ampUrl = <<>>
    /\ \E r \in Entries(rendered) : r.kind = "tag" /\ r.gc.pagination # <<>>
    /\ \E r \in Entries(rendered) : r.kind = "tag" /\ r.gc.pagination = <<>>

(***************************************************************************)
(* C19: URL isomorphism.  With AMP enabled, for every page rendered in     *)
(* either pass the accelerated-twin URL given to the template is the       *)
(* standard canonical URL of the page with a single /amp segment inserted  *)
(* right after the site root (the configured domain), and nothing else     *)
(* changed.  In the AMP pass siteConfig.domain already ends in /amp, so    *)
(* the twin URL there carries /amp twice: this is violated.                *)
(***************************************************************************)
\* the canonical URL the standard pass gave this page
StandardUrlOf(kind, ent, page) ==
    LET i == CHOOSE j \in RenderingsOf(FALSE, kind, ent, page) : TRUE
    IN  rendered[i].gc.pageUrl

\* url with /amp put in after the site root
WithAmpAfterRoot(url) ==
    SiteDomain \o <<"/", "amp">> \o SubSeq(url, Len(SiteDomain) + 1, Len(url))

C19_TwinUrlIsomorphism ==
    config.ampIsEnabled =>
        \A r \in Entries(rendered) :
            (r.kind \in Kinds /\ RenderingsOf(FALSE, r.kind, r.ent, r.page) # {}) =>
                /\ IsPrefix(SiteDomain, StandardUrlOf(r.kind, r.ent, r.page))
                /\ r.gc.ampUrl = WithAmpAfterRoot(StandardUrlOf(r.kind, r.ent, r.page))

(***************************************************************************)
(* C20: the clean-URL setting is applied to all four kinds alike: with     *)
(* clean URLs on, post, tag, author and home page URLs end in a trailing   *)
(* slash; with clean URLs off, all of them end in an explicit file name.   *)
(* Only generatePosts reads the setting; home, tag and author URLs end in  *)
(* a slash either way: this is violated.                                   *)
(***************************************************************************)
EndsInSlash(url)    == EndsWith(url, <<"/">>)
EndsInFileName(url) == EndsWith(url, <<".html">>)

C20_CleanUrlsAppliedToAllKinds ==
    \A r \in Entries(rendered) :
        r.kind \in Kinds =>
            IF config.cleanUrls THEN EndsInSlash(r.gc.pageUrl)
            ELSE EndsInFileName(r.gc.pageUrl)

(***************************************************************************)
(* C21: the standard and the AMP pass are strictly sequential.  No AMP     *)
(* emission (compileTemplate, evaluation or file write) is made before     *)
(* every standard step, the awaited sitemap step included, has finished;   *)
(* the content cache is rebuilt after the output root and the site URL     *)
(* were switched and before the first AMP emission; within each pass the   *)
(* kinds are emitted in the order home, posts, tags, authors.              *)
(***************************************************************************)
KindRank(kind) ==
    CASE kind = "index"  -> 1
      [] kind = "post"   -> 2
      [] kind = "tag"    -> 3
      [] kind = "author" -> 4
      [] OTHER           -> 5

\* position of an emission in the run: the pass first, the kind second
EmissionRank(r) == (IF r.amp THEN 10 ELSE 0) + KindRank(r.kind)

InEmissionOrder(seq) ==
    \A i, j \in 1..Len(seq) : i < j => EmissionRank(seq[i]) <= EmissionRank(seq[j])

AmpEmissions(c, r, w) ==
    {x \in Entries(c) : x.amp} \cup {x \in Entries(r) : x.amp}
    \cup {x \in Entries(w) : x.amp}

CacheLoads == Cardinality({i \in 1..Len(loads) : loads[i] = "contentStructure"})

AmpSwitched ==
    /\ outputDir = OutputRoot \o <<"amp">>
    /\ domain = SiteDomain \o <<"/", "amp">>

C21_Order ==
    /\ InEmissionOrder(compiled)
    /\ InEmissionOrder(rendered)
    /\ InEmissionOrder(written)
    /\ AmpEmissions(compiled, rendered, written) # {} =>
          /\ PcIndex(pc) > PcIndex("amp")
          /\ 90 \in Entries(progress)
          /\ AmpSwitched
          /\ CacheLoads = 2

C21_Step ==
    /\ AmpEmissions(compiled', rendered', written')
            \ AmpEmissions(compiled, rendered, written) # {} =>
          /\ InAmpPass
          /\ AmpSwitched
          /\ CacheLoads = 2
          /\ cachedItems = getCachedItems
    /\ (pc = "amp" /\ pc' = "amp-frontpage") =>
          /\ loads' = Append(loads, "contentStructure")
          /\ CacheLoads = 1
          /\ AmpEmissions(compiled', rendered', written') = {}

C21_PassesAreSequential == [](C21_Order) /\ [][C21_Step]_vars

C21_Witness ==
    /\ pc = "returned"
    /\ \A k \in Kinds : OfKind(written, FALSE, k) # {} /\ OfKind(written, TRUE, k) # {}

(***************************************************************************)
(* C22: the AMP sub-pipeline is optional.  With AMP disabled generateAMP   *)
(* leaves the output root, the site URL, the content cache and the error   *)
(* log unchanged and writes no file; with AMP enabled the output root of   *)
(* the renderer and of the template helper is nested under 'amp' and the   *)
(* site URL is extended by '/amp' exactly once, before any AMP page is     *)
(* emitted: every AMP file is written under <output>/amp and every         *)
(* standard file under <output>.                                           *)
(***************************************************************************)
C22_GenerateAMPStep ==
    pc = "amp" =>
        IF config.ampIsEnabled
        THEN /\ outputDir = OutputRoot /\ outputDir' = OutputRoot \o <<"amp">>
             /\ helperDir = OutputRoot /\ helperDir' = OutputRoot \o <<"amp">>
             /\ domain = SiteDomain /\ domain' = SiteDomain \o <<"/", "amp">>
             /\ AmpEmissions(compiled', rendered', written') = {}
        ELSE /\ UNCHANGED <<outputDir, helperDir, domain, cachedItems, errorLog>>
             /\ UNCHANGED <<compiled, rendered, written>>
             /\ pc' = "finish"

C22_Roots ==
    /\ \A w \in Entries(written) :
          w.dir = IF w.amp THEN OutputRoot \o <<"amp">> ELSE OutputRoot
    /\ (InAmpPass \/ AmpEmissions(compiled, rendered, written) # {}) =>
          /\ config.ampIsEnabled
          /\ AmpSwitched
          /\ helperDir = OutputRoot \o <<"amp">>
    /\ (~config.ampIsEnabled /\ pc \notin {"idle"}) =>
          /\ outputDir = OutputRoot
          /\ domain = SiteDomain

C22_AmpIsOptionalAndNested == [](C22_Roots) /\ [][C22_GenerateAMPStep]_vars

C22_Witness ==
    /\ pc = "finish"
    /\ config.ampIsEnabled
    /\ renders > 1
    /\ \E w \in Entries(written) : w.amp /\ w.kind = "author"

(***************************************************************************)
(* C23: page 1 of a home, tag or author listing is written to the          *)
(* listing's canonical file (index.html, the tag file, the author file)    *)
(* and every page n > 1 to the sub-path numbered n; the pages written are  *)
(* exactly 1..totalPages in this order, no two pages of a listing share a  *)
(* target, and the AMP pass writes the same targets as the standard pass.  *)
(***************************************************************************)
WritesOfListing(amp, kind, ent) ==
    SelectSeq(written, LAMBDA w : w.amp = amp /\ w.kind = kind /\ w.ent = ent)

\* the file a save call names, relative to the output root of its pass
Target(w) == <<w.fn, w.name, w.page>>

CanonicalTarget(kind, ent) ==
    CASE kind = "index"  -> <<"saveOutputFile", "index.html", 0>>
      [] kind = "tag"    -> <<"saveOutputTagFile", SlugOf(kind, ent), 0>>
      [] kind = "author" -> <<"saveOutputAuthorFile", SlugOf(kind, ent), 0>>

NumberedTarget(kind, ent, n) ==
    CASE kind = "index"  -> <<"saveOutputHomePaginationFile", "", n>>
      [] kind = "tag"    -> <<"saveOutputTagPaginationFile", SlugOf(kind, ent), n>>
      [] kind = "author" -> <<"saveOutputAuthorPaginationFile", SlugOf(kind, ent), n>>

\* the page count the listing's pagination block reports; 1 without pagination
TotalPagesOf(pages) ==
    IF pages[1].gc.pagination = <<>> THEN 1 ELSE pages[1].gc.pagination[1].totalPages

C23_PagesGoToNumberedTargets ==
    \A l \in FinishedListings :
        LET pages  == PagesRendered(l[1], l[2], l[3])
            writes == WritesOfListing(l[1], l[2], l[3])
        IN  /\ Len(pages) > 0
            /\ Len(writes) = TotalPagesOf(pages)
            /\ \A n \in 1..Len(writes) :
                  /\ pages[n].page = n
                  /\ Target(writes[n]) = IF n = 1 THEN CanonicalTarget(l[2], l[3])
                                         ELSE NumberedTarget(l[2], l[3], n)
            /\ \A m, n \in 1..Len(writes) :
                  Target(writes[m]) = Target(writes[n]) => m = n
            /\ (l[1] /\ KindFinished(TRUE, l[2])) =>
                  [n \in 1..Len(writes) |-> Target(writes[n])]
                  = [n \in 1..Len(WritesOfListing(FALSE, l[2], l[3])) |->
                        Target(WritesOfListing(FALSE, l[2], l[3])[n])]

C23_Witness ==
    /\ pc = "finish"
    /\ config.ampIsEnabled
    /\ <<TRUE, "tag", 1>> \in FinishedListings
    /\ Len(WritesOfListing(TRUE, "tag", 1)) = 3
    /\ Len(WritesOfListing(FALSE, "author", 1)) = 3
    /\ Len(WritesOfListing(TRUE, "index", 0)) = 1

(***************************************************************************)
(* C24: with displayEmptyTags off, a tag whose post count is 0 is neither  *)
(* rendered nor written; with it on, the same tag produces exactly one     *)
(* listing page, a single page without pagination.  The tag is in the      *)
(* content cache under both settings.                                      *)
(***************************************************************************)
EmptyTags == {r \in StoreRows("tag") : r.postsNumber = 0}

C24_EmptyTagSuppression ==
    \A amp \in Passes : \A r \in EmptyTags :
        KindFinished(amp, "tag") =>
            LET pages  == PagesRendered(amp, "tag", r.id)
                writes == WritesOfListing(amp, "tag", r.id)
            IN  /\ r.id \in DOMAIN cachedItems.tag
                /\ cachedItems.tag[r.id].postsNumber = 0
                /\ IF config.displayEmptyTags
                   THEN /\ Len(pages) = 1
                        /\ pages[1].page = 1
                        /\ pages[1].gc.pagination = <<>>
                        /\ pages[1].gc.isFirstPage /\ pages[1].gc.isLastPage
                        /\ Len(writes) = 1
                        /\ Target(writes[1]) = CanonicalTarget("tag", r.id)
                   ELSE pages = <<>> /\ writes = <<>>

C24_Witness ==
    /\ pc = "finish"
    /\ config.ampIsEnabled
    /\ config.displayEmptyTags
    /\ \E r \in EmptyTags :
          /\ Len(WritesOfListing(FALSE, "tag", r.id)) = 1
          /\ Len(WritesOfListing(TRUE, "tag", r.id)) = 1

(***************************************************************************)
(* C25: the AMP pass uses the same entities and page plans as the standard *)
(* pass.  As claimed: for each of home, posts, tags and authors the        *)
(* relative paths written under the AMP root are the ones written under    *)
(* the standard root in the same run.  A kind that returns early in one    *)
(* pass (a template that does not compile, the single home page whose      *)
(* evaluation throws) writes nothing in that pass while the other pass     *)
(* writes its files, so this holds only for the kinds that failed in       *)
(* neither pass.                                                           *)
(***************************************************************************)
TargetsOf(amp, kind) == {Target(written[i]) : i \in OfKind(written, amp, kind)}

\* the kind returned early in this pass: a compileTemplate call returned false,
\* or the evaluation of the single home page threw
ReturnedEarly(amp, kind) ==
    \/ CompileFailed(amp, kind)
    \/ /\ kind = "index"
       /\ \E r \in Entries(rendered) :
             r.amp = amp /\ r.kind = kind /\ ~r.ok /\ r.gc.pagination = <<>>

\* C25 as claimed: the two passes write the same relative paths
C25_SamePathsInBothPasses ==
    \A k \in Kinds : KindFinished(TRUE, k) => TargetsOf(TRUE, k) = TargetsOf(FALSE, k)

\* C25 as the code has it: the same relative paths for every kind that returned
\* early in neither pass; every path of the other pass for one that did
C25_SamePathsUnlessReturnedEarly ==
    \A k \in Kinds : KindFinished(TRUE, k) =>
        /\ (~ReturnedEarly(TRUE, k) /\ ~ReturnedEarly(FALSE, k)) =>
              TargetsOf(TRUE, k) = TargetsOf(FALSE, k)
        /\ \A a \in Passes :
              ReturnedEarly(a, k) =>
                  /\ TargetsOf(a, k) = {}
                  /\ ~ReturnedEarly(~a, k) => TargetsOf(~a, k) # {}

C25_Witness ==
    /\ pc = "finish"
    /\ config.ampIsEnabled
    /\ ReturnedEarly(FALSE, "tag") /\ ~ReturnedEarly(TRUE, "tag")
    /\ Cardinality(TargetsOf(TRUE, "tag")) > 2
    /\ ~ReturnedEarly(FALSE, "post") /\ ~ReturnedEarly(TRUE, "post")
    /\ TargetsOf(TRUE, "post") # {}
    /\ errorLog # <<>>

(***************************************************************************)
(* C26: idempotence.  Two full passes over the same unchanged store, theme *)
(* and configuration write the same output files with the same contents    *)
(* and report the same result.  The second render() call of a Renderer     *)
(* makes the same evaluations and writes as the first, but this.errorLog   *)
(* is created in the constructor and never emptied, so after a pass that   *)
(* logged an error the second call returns the entries of both passes.     *)
(***************************************************************************)
SecondPassReturned == pc = "returned" /\ renders > 1

C26_SameFilesAndContents ==
    SecondPassReturned =>
        /\ written = previous.written
        /\ rendered = previous.rendered

C26_SameFilesAndSameResult ==
    SecondPassReturned =>
        /\ written = previous.written
        /\ rendered = previous.rendered
        /\ result = previous.result

\* what the second call returns after a first call that failed: the log twice
C26_SecondResultRepeatsTheLog ==
    (SecondPassReturned /\ previous.result # <<"true">>) =>
        /\ previous.result[1] = "errorLog"
        /\ result = <<"errorLog", previous.result[2] \o previous.result[2]>>

(***************************************************************************)
(* C27: the AMP pass compiles no variant: each of its steps compiles the   *)
(* kind's default AMP template and nothing else.  Every post, tag and      *)
(* author, whatever override slug the store holds for it, is rendered with *)
(* that default template, and the substitution appends no error entry.     *)
(***************************************************************************)
AmpStepKind ==
    CASE pc = "amp-frontpage" -> "index"
      [] pc = "amp-posts"     -> "post"
      [] pc = "amp-tags"      -> "tag"
      [] pc = "amp-authors"   -> "author"

\* the compileTemplate calls of the step being taken
NewCompiles == SubSeq(compiled', Len(compiled) + 1, Len(compiled'))

C27_AmpStep ==
    InAmpPass =>
        /\ Len(NewCompiles) = 1
        /\ NewCompiles[1].file = DefaultFile(TRUE, AmpStepKind)
        /\ faults = {} => errorLog' = errorLog

C27_AmpRenderings ==
    \A k \in {"post", "tag", "author"} :
        /\ \A r \in Entries(rendered) :
              (r.amp /\ r.kind = k) => r.tpl = DefaultFile(TRUE, k)
        /\ (KindFinished(TRUE, k) /\ ~CompileFailed(TRUE, k)) =>
              \A row \in StoreRows(k) :
                  Shown(k, row) => RenderingsOf(TRUE, k, row.id, 1) # {}

C27_AmpUsesDefaultTemplateOnly == [](C27_AmpRenderings) /\ [][C27_AmpStep]_vars

\* a tag and a post that ask for a declared variant, rendered in both passes
C27_Witness ==
    /\ pc = "finish"
    /\ errorLog = <<>>
    /\ \E r, s \in Entries(rendered) :
          /\ r.kind = "tag" /\ s.kind = "tag" /\ r.ent = s.ent
          /\ ~r.amp /\ r.tpl = <<"tag", "-", Variant>>
          /\ s.amp /\ s.tpl = <<"amp-tag">>
    /\ \E r, s \in Entries(rendered) :
          /\ r.kind = "post" /\ s.kind = "post" /\ r.ent = s.ent
          /\ ~r.amp /\ r.tpl = <<"post", "-", Variant>>
          /\ s.amp /\ s.tpl = <<"amp-post">>

(***************************************************************************)
(* C28: within one listing kind of one pass, each template variant is      *)
(* compiled at most once, however many entities of the kind request it.    *)
(* The compilation loops call compileTemplate for every entity that names  *)
(* a variant, without looking whether the table already holds the slug, so *)
(* two entities with the same variant compile it twice.                    *)
(***************************************************************************)
CompilesOf(amp, kind, file) ==
    {i \in 1..Len(compiled) : /\ compiled[i].amp = amp /\ compiled[i].kind = kind
                              /\ compiled[i].file = file}

C28_EachVariantCompiledOnce ==
    \A c \in Entries(compiled) : Cardinality(CompilesOf(c.amp, c.kind, c.file)) <= 1

\* what the loops do: one compileTemplate call per entity that requests a variant
C28_OneCompilePerRequestingEntity ==
    \A k \in {"post", "tag", "author"} :
        (KindFinished(FALSE, k) /\ ~CompileFailed(FALSE, k)) =>
            Cardinality(CompilesOf(FALSE, k, <<k, "-", Variant>>))
            = Cardinality({row \in StoreRows(k) :
                              /\ Shown(k, row)
                              /\ TemplateFor(k, row) = <<k, "-", Variant>>})

(***************************************************************************)
(* C29: the content store is read only while the content cache is built:   *)
(* once loadContentStructure of a pass has run, no step of home, post, tag *)
(* or author generation queries the store again.  generatePosts,           *)
(* generateTags and generateAuthors each begin with a db.exec query, in    *)
(* both passes, so this is violated.                                       *)
(***************************************************************************)
\* the db.exec calls of generatePosts, generateTags and generateAuthors
StoreQueries == {"posts", "tags", "authors"}

C29_NoStoreQueryAfterCacheBuild ==
    \A i, j \in 1..Len(loads) :
        (i < j /\ loads[i] = "contentStructure") => loads[j] \notin StoreQueries

\* what the code does: one query per pass by each of the three steps
C29_OneQueryPerStepAndPass ==
    pc = "finish" =>
        \A q \in StoreQueries :
            Cardinality({i \in 1..Len(loads) : loads[i] = q})
            = IF config.ampIsEnabled THEN 2 ELSE 1

(***************************************************************************)
(* C30: with displayEmptyAuthors off, no author page is written for an     *)
(* author whose post count is 0: the count that decides whether an author  *)
(* is rendered is the count that decides the author's pagination, so every *)
(* emitted author listing has at least one post.  The filter reads the     *)
(* posts_number of the authors query, which counts every row of the posts  *)
(* table, and the pagination reads cachedItems.authors[id].postsNumber, so *)
(* an author whose only posts are unpublished is emitted with 0 posts.     *)
(***************************************************************************)
AuthorWrites == {w \in Entries(written) : w.kind = "author"}

C30_EmittedAuthorsHavePosts ==
    ~config.displayEmptyAuthors =>
        \A w \in AuthorWrites :
            /\ cachedItems.author[w.ent].postsNumber > 0
            /\ \A r \in Entries(rendered) :
                  (r.kind = "author" /\ r.ent = w.ent /\ r.gc.pagination # <<>>) =>
                      r.gc.pagination[1].totalPosts > 0

\* what the code does: the queried count alone decides whether an author is emitted
C30_QueriedCountDecidesEmission ==
    \A a \in Passes :
        (KindFinished(a, "author") /\ ~config.displayEmptyAuthors) =>
            {w.ent : w \in {x \in AuthorWrites : x.amp = a}}
            = {row.id : row \in {x \in StoreRows("author") : x.posts_number > 0}}

(***************************************************************************)
(* C31: the error entry of a render failure names the template that was    *)
(* used for the failing page (the kind's default file for a DEFAULT        *)
(* entity, '<kind>-<slug>' for a variant), whatever was rendered earlier   *)
(* in the kind.  The render loops rebuild inputFile from its own previous  *)
(* value, so the name grows with every page and every entity, and the AMP  *)
(* post loop inserts 'amp-' after the name.                                *)
(***************************************************************************)
FailedRenderings == {r \in Entries(rendered) : ~r.ok}

C31_ErrorNamesTemplateUsed ==
    \A r \in FailedRenderings :
        /\ r.inputFile = r.tpl
        /\ Err("1002", r.tpl) \in Entries(errorLog)

\* what the code does: the entry carries the name the loop has built so far;
\* the home listing and the plain pages, which build no name, are named rightly
C31_ErrorNamesAccumulatedFile ==
    \A r \in FailedRenderings :
        /\ Err("1002", r.inputFile) \in Entries(errorLog)
        /\ IsPrefix(DefaultFile(r.amp, r.kind), r.inputFile)
        /\ r.kind \notin {"post", "tag", "author"} => r.inputFile = r.tpl

(***************************************************************************)
(* C32: an author whose stored config is not valid JSON is recovered       *)
(* locally: a warning naming the author is written, the author is rendered *)
(* with the DEFAULT template, the remaining authors are generated as       *)
(* usual, and nothing is appended to the error log.                        *)
(***************************************************************************)
BrokenAuthors == {r \in StoreRows("author") : r.config = InvalidJSON}

WarningsFor(id) == {i \in 1..Len(warnings) : warnings[i].author = id}

C32_BadAuthorConfigIsRecovered ==
    \A amp \in Passes :
        KindFinished(amp, "author") =>
            /\ \A r \in BrokenAuthors :
                  /\ WarningsFor(r.id) # {}
                  /\ Shown("author", r) =>
                        /\ RenderingsOf(amp, "author", r.id, 1) # {}
                        /\ \A x \in Entries(rendered) :
                              (x.amp = amp /\ x.kind = "author" /\ x.ent = r.id) =>
                                  x.tpl = DefaultFile(amp, "author")
            /\ \A r \in StoreRows("author") \ BrokenAuthors :
                  /\ WarningsFor(r.id) = {}
                  /\ Shown("author", r) =>
                        /\ RenderingsOf(amp, "author", r.id, 1) # {}
                        /\ ~amp => \A x \in Entries(rendered) :
                              (~x.amp /\ x.kind = "author" /\ x.ent = r.id) =>
                                  x.tpl = TemplateFor("author", r)
            /\ faults = {} => errorLog = <<>>

C32_Witness ==
    /\ pc = "amp"
    /\ BrokenAuthors # {}
    /\ \E r \in BrokenAuthors, s \in StoreRows("author") \ BrokenAuthors :
          /\ r.id < s.id
          /\ WritesOf(FALSE, "author", r.id, 1) # {}
          /\ \E x \in Entries(rendered) :
                x.kind = "author" /\ x.ent = s.id /\ x.tpl = <<"author", "-", Variant>>

(***************************************************************************)
(* C33: over a full pass, for any number of posts and tags, every progress *)
(* notification carries a value within 0..100, the values never decrease,  *)
(* and the last notification is 100.                                       *)
(***************************************************************************)
C33_ProgressIsMonotoneTo100 ==
    /\ \A i \in 1..Len(progress) : progress[i] \in 0..100
    /\ \A i, j \in 1..Len(progress) : i < j => progress[i] <= progress[j]
    /\ (themeValid /\ pc \in {"done", "returned"}) =>
          /\ progress # <<>>
          /\ progress[Len(progress)] = 100
          /\ {1, 2, 5, 10, 11, 20, 60, 70, 75, 80, 90} \subseteq Entries(progress)

\* two posts and three tags counted in the AMP pass: 94 and 98, 99 are notified
C33_Witness ==
    /\ pc = "done"
    /\ config.ampIsEnabled
    /\ {40, 64, 67, 94, 98, 99, 100} \subseteq Entries(progress)

(***************************************************************************)
(* C34: every listing kind of every pass works on a global context created *)
(* for it, and although the object is mutated in place nothing a page set  *)
(* is seen by a later page or entity: at every render the context tags are *)
(* [kind] on a first or single page and [kind, 'pagination',               *)
(* '<kind>-pagination'] on a page n > 1, and a single-page entity, also    *)
(* one rendered after a paginated entity, sees pagination false with       *)
(* isFirstPage and isLastPage true.                                        *)
(***************************************************************************)
ListingRenderings == {i \in 1..Len(rendered) : rendered[i].kind \in Listings}

\* the listing takes the single-page branch
SinglePageListing(kind, ent) ==
    ItemsOf(kind, ent) <= ConfiguredSize(kind) \/ ConfiguredSize(kind) <= 0

C34_NoContextLeak ==
    \A i \in ListingRenderings :
        LET r == rendered[i]
        IN  /\ r.gc.context = IF r.page = 1 THEN <<r.kind>>
                              ELSE <<r.kind, "pagination", PaginationTag(r.kind)>>
            /\ r.gc.isFirstPage = (r.page = 1)
            /\ SinglePageListing(r.kind, r.ent) =>
                  /\ r.gc.pagination = <<>>
                  /\ r.gc.isFirstPage /\ r.gc.isLastPage
            /\ ~SinglePageListing(r.kind, r.ent) =>
                  /\ r.gc.pagination # <<>>
                  /\ r.gc.pagination[1].currentPage = r.page
                  /\ r.gc.pagination[1].totalPosts = ItemsOf(r.kind, r.ent)

\* a single-page tag rendered right after the last page of a paginated tag
C34_Witness ==
    \E i \in ListingRenderings :
        /\ i > 1
        /\ rendered[i].amp /\ rendered[i].kind = "tag"
        /\ rendered[i].gc.pagination = <<>>
        /\ rendered[i - 1].amp /\ rendered[i - 1].kind = "tag"
        /\ rendered[i - 1].ent # rendered[i].ent
        /\ rendered[i - 1].page > 1
        /\ rendered[i - 1].gc.context = <<"tag", "pagination", "tag-pagination">>

(***************************************************************************)
(* C35: compileTemplate reports failure consistently: a call that appends  *)
(* an error entry (template file missing, empty or unparsable) returns     *)
(* false, and a call that returns a compiled template has appended no      *)
(* error entry.  The entry for a falsy template is pushed without a         *)
(* return, and the only return false is in the catch of                    *)
(* Handlebars.compile, so an empty template file gets an entry and a       *)
(* compiled template.                                                      *)
(***************************************************************************)
\* the entries compileTemplate has pushed for the file
CompileEntries(file) ==
    {j \in 1..Len(errorLog) :
        errorLog[j] \in {Err("missing", file), Err("1001", file)}}

C35_EntryIffFalse ==
    \A i \in 1..Len(compiled) :
        (CompileEntries(compiled[i].file) # {}) <=> (compiled[i].tpl = NoTpl)

\* what the code does guarantee: false is returned exactly with a 1001 entry,
\* and a missing-file entry is pushed exactly for a falsy template
C35_FalseIffCaught ==
    \A i \in 1..Len(compiled) :
        LET file == compiled[i].file
            template == IF IsFeedFile(file) /\ loadTemplate(file) \in {"missing", "empty"}
                        THEN "ok" ELSE loadTemplate(file)
        IN  /\ (compiled[i].tpl = NoTpl)
                  <=> (\E j \in 1..Len(errorLog) : errorLog[j] = Err("1001", file))
            /\ (template \in {"missing", "empty"})
                  <=> (\E j \in 1..Len(errorLog) : errorLog[j] = Err("missing", file))
            /\ compiled[i].tpl = NoTpl => CompileEntries(file) # {}

(***************************************************************************)
(* C36: every pagination loop ends, for every configured page size: 0 and  *)
(* negative sizes take the single-page branch, a size parseInt cannot read *)
(* counts as 5, and the loop is entered only with a page size > 0, so the  *)
(* offset of each page is one page size above the offset of the page       *)
(* before and the last page is the one that reaches the item count.        *)
(***************************************************************************)
RawSize(kind) ==
    CASE kind = "index"  -> config.postsPerPage
      [] kind = "tag"    -> config.tagsPostsPerPage
      [] kind = "author" -> config.authorsPostsPerPage

C36_PaginationLoopsEnd ==
    \A l \in FinishedListings :
        LET pages == PagesRendered(l[1], l[2], l[3])
            size  == IF RawSize(l[2]) = NaN THEN 5 ELSE RawSize(l[2])[1]
        IN  /\ Len(pages) >= 1
            /\ \A p \in 1..Len(pages) :
                  LET gc == pages[p].gc
                  IN  /\ gc.limit = size
                      /\ gc.pagination = <<>> =>
                            /\ Len(pages) = 1
                            /\ gc.offset = 0
                      /\ gc.pagination # <<>> =>
                            /\ size > 0
                            /\ gc.pagination[1].postsPerPage = size
                            /\ gc.pagination[1].totalPosts > size
                            /\ gc.offset = (p - 1) * size
                            /\ gc.offset < gc.pagination[1].totalPosts
                            /\ p > 1 => gc.offset > pages[p - 1].gc.offset
                            /\ (p = Len(pages))
                                  <=> (gc.offset + size >= gc.pagination[1].totalPosts)
            /\ size <= 0 => Len(pages) = 1

\* an unreadable page size: the tag of 6 posts took the loop with page size 5 and
\* ended after the page at offset 5, the tag of 4 posts took the single branch
C36_Witness ==
    /\ pc = "returned"
    /\ config.tagsPostsPerPage = NaN
    /\ \E l \in FinishedListings :
          /\ l[2] = "tag"
          /\ Len(PagesRendered(l[1], l[2], l[3])) = 2
          /\ PagesRendered(l[1], l[2], l[3])[2].gc.offset = 5
          /\ PagesRendered(l[1], l[2], l[3])[2].gc.pagination[1].totalPosts = 6
    /\ \E l \in FinishedListings :
          /\ l[2] = "tag"
          /\ Len(PagesRendered(l[1], l[2], l[3])) = 1
          /\ PagesRendered(l[1], l[2], l[3])[1].gc.pagination = <<>>
          /\ ItemsOf(l[2], l[3]) = 4

(***************************************************************************)
(* C37: the error log is created by the constructor and render() does not  *)
(* reset it: no step shortens it, a later render() call on the same        *)
(* Renderer returns the entries of the earlier calls before its own, and a *)
(* call returns true only if no call on the instance has recorded an error *)
(* so far.                                                                 *)
(***************************************************************************)
C37_Step ==
    /\ IsPrefix(errorLog, errorLog')
    /\ (pc' = "returned" /\ result' = <<"true">>) =>
          /\ errorLog' = <<>>
          /\ previous'.result \in {<<"none">>, <<"true">>}
    /\ (pc' = "returned" /\ previous'.result[1] = "errorLog") =>
          /\ result'[1] = "errorLog"
          /\ IsPrefix(previous'.result[2], result'[2])

C37_LogOutlivesTheCall == [][C37_Step]_vars

\* the first call recorded an error, the theme was repaired, and the second call,
\* which recorded nothing itself, returned the log of the first
C37_Witness ==
    /\ pc = "returned"
    /\ renders > 1
    /\ themeValid /\ faults = {}
    /\ previous.result[1] = "errorLog"
    /\ result = previous.result
    /\ written # <<>>

(***************************************************************************)
(* C38: render() empties (or creates) the output directory before it       *)
(* validates the theme: a call whose validation fails returns with the     *)
(* output of the call before removed and the output directory empty.       *)
(***************************************************************************)
\* the step is a render() call that returns from the failed validation
ValidationFailed ==
    /\ renders' = renders + 1
    /\ pc' = "returned"

C38_Step ==
    ValidationFailed =>
        /\ outputDir' = OutputRoot
        /\ written' = <<>>
        /\ result'[1] = "errorLog"
        /\ result'[2][Len(result'[2])] = Err("1010", <<"config.json">>)

C38_OutputIsEmptiedBeforeValidation == [][C38_Step]_vars

\* the first call wrote the site, the theme's config.json was corrupted, and the
\* second call returned from the validation with nothing left of the output
C38_Witness ==
    /\ pc = "returned"
    /\ renders > 1
    /\ ~themeValid
    /\ previous.written # <<>>
    /\ written = <<>>
    /\ outputDir = OutputRoot

====
